---- MODULE Spec2Model ----
(***************************************************************************)
(* Model of the battery-optimization control loop:                         *)
(*   core/actions.py          OptimizationActuator and its four backends   *)
(*   core/agent_controller.py AgentController (producer, consumer, API)    *)
(*   core/monitoring.py       SystemMonitor (the metrics producer thread)  *)
(*   core/reasoning.py        BatteryOptimizationAgent (decide, retrain)   *)
(*                                                                         *)
(* Conventions.  Fractions in [0,1] (intensity, confidence, performance    *)
(* impact) are integers in percent, 0..100.  time.time() is the integer    *)
(* clock `now`; two readings taken without the clock advancing in between  *)
(* are equal, as the clock's resolution allows.  A Python dict is a        *)
(* function with a growing domain; the active-action dict is a sequence of *)
(* entries with unique ids, because its iteration order (insertion order)  *)
(* is what revert_all_actions() follows.  An operator named ...With takes   *)
(* the value of a local of the code as an argument, so that the value is   *)
(* computed once.                                                          *)
(***************************************************************************)
EXTENDS Integers, Sequences, FiniteSets, TLC

VARIABLES
    now,              \* the value time.time() returns
    platform,         \* platform.system().lower(): "linux", "windows" or "other"
    optimizers,       \* OptimizationActuator.optimizers: name -> backend state
    active_actions,   \* OptimizationActuator.active_actions
    action_history,   \* OptimizationActuator.action_history
    running,          \* AgentController.running
    state,            \* AgentController.state (AgentState)
    config,           \* AgentController.config: the entries that change
    emergency_mode,   \* AgentController.emergency_mode
    decision_queue,   \* AgentController.decision_queue, oldest first
    agent_thread,     \* AgentController.agent_thread: a consumer slot, 0 for None
    monitor,          \* SystemMonitor: running, callbacks, monitor_thread
    producers,        \* the threads running SystemMonitor._monitor_loop
    consumers,        \* the threads running AgentController._agent_loop
    caller,           \* the thread that calls the control API: where it is in stop()
    decisions,        \* history: the decision cycles begun so far
    action_lock,      \* OptimizationActuator.action_lock: the holding thread, 0 if free
    workers,          \* the threads inside a call of the executor: where each is
    agent,            \* BatteryOptimizationAgent: the model and what it learns from
    calls,            \* number of calls and environment events so far
    ev                \* what the last step did: the call, its arguments and results

execVars == <<optimizers, active_actions, action_history>>
ctlVars == <<running, state, config, emergency_mode, decision_queue, agent_thread,
             monitor, producers, consumers, caller, decisions>>
lockVars == <<action_lock, workers>>
vars == <<now, platform, optimizers, active_actions, action_history, running, state,
          config, emergency_mode, decision_queue, agent_thread, monitor, producers,
          consumers, caller, decisions, action_lock, workers, agent, calls, ev>>

----------------------------------------------------------------------------
(* Values *)

\* Python's None (an absent previous_value / new_value, a malformed field).
NoneVal == -1

\* The history is cut to its last HistoryKeep entries once it exceeds HistoryLimit.
HistoryLimit == 1000
HistoryKeep == 500

Max(a, b) == IF a >= b THEN a ELSE b
Min(a, b) == IF a <= b THEN a ELSE b

EmptyDict == [x \in {} |-> x]
DictPut(f, k, v) == [x \in (DOMAIN f) \cup {k} |-> IF x = k THEN v ELSE f[x]]
DictDel(f, k) == [x \in (DOMAIN f) \ {k} |-> f[x]]

\* OptimizationAction (reasoning.py): a value object, never validated.
OptimizationAction(type, intensity, target, savings, impact, confidence) ==
    [action_type |-> type, intensity |-> intensity, target_component |-> target,
     estimated_savings |-> savings, performance_impact |-> impact,
     confidence |-> confidence]

\* ActionResult (actions.py); actual_impact is never set and is left out.
ActionResult(id, success, err, prev, new, savings) ==
    [action_id |-> id, success |-> success, error_message |-> err,
     previous_value |-> prev, new_value |-> new, estimated_savings |-> savings]

\* f"{prefix}_{action_type}_{time.time()}"
ActionId(prefix, type, t) == <<prefix, type, t>>

----------------------------------------------------------------------------
(* The active-action dict, in insertion order *)

ActiveIds(active) == {active[i].id : i \in DOMAIN active}

ActiveIndex(active, id) == CHOOSE i \in DOMAIN active : active[i].id = id

ActiveGet(active, id) == active[ActiveIndex(active, id)]

\* d[id] = entry: a new key goes last, an existing key keeps its place.
ActivePut(active, entry) ==
    IF entry.id \in ActiveIds(active)
    THEN [active EXCEPT ![ActiveIndex(active, entry.id)] = entry]
    ELSE Append(active, entry)

\* del d[id]
ActiveDel(active, id) == SelectSeq(active, LAMBDA e : e.id # id)

----------------------------------------------------------------------------
(* Platform primitives.  A primitive's outcome is an input of the step:     *)
(* "ok", "fail", or "raise" (a registered application callback raising).    *)

Outcomes == {"ok", "fail", "raise"}

\* optimizer_map of _apply_single_action and revert_action
OptimizerMap(type) ==
    CASE type = "brightness_adjust" -> "display"
      [] type = "cpu_throttle" -> "cpu"
      [] type = "network_limit" -> "network"
      [] type = "app_throttle" -> "application"
      [] type = "background_limit" -> "application"
      [] OTHER -> "none"

\* The outcomes the primitive behind optimizer `name` can have on platform p:
\* display and cpu simulate success off linux/windows; network falls back to a
\* simulated success, and fails only when a linux subprocess raises; the
\* application backend depends on the callback or on the process table.
PossibleOutcomes(p, name) ==
    CASE name = "display" -> IF p = "other" THEN {"ok"} ELSE {"ok", "fail"}
      [] name = "cpu" -> IF p = "other" THEN {"ok"} ELSE {"ok", "fail"}
      [] name = "network" -> IF p = "linux" THEN {"ok", "fail"} ELSE {"ok"}
      [] name = "application" -> {"ok", "fail", "raise"}
      [] OTHER -> {"ok"}

----------------------------------------------------------------------------
(* DisplayOptimizer *)

\* _set_brightness: clamps to 10..100; current_brightness follows on success.
SetBrightness(d, brightness, o) ==
    LET b == Max(10, Min(100, brightness)) IN
    IF o = "ok"
    THEN [opt |-> [d EXCEPT !.current_brightness = b], success |-> TRUE]
    ELSE [opt |-> d, success |-> FALSE]

\* int(action.intensity * 50)
BrightnessReduction(intensity) == (intensity * 50) \div 100

\* The return of the brightness_adjust branch, given _set_brightness's outcome
DisplayApplyWith(action, action_id, previous_brightness, new_brightness, set) ==
    [opt |-> set.opt, raised |-> FALSE,
     result |-> ActionResult(action_id, set.success,
                   IF set.success THEN "" ELSE "Failed to set brightness",
                   previous_brightness,
                   IF set.success THEN new_brightness ELSE previous_brightness,
                   action.estimated_savings)]

DisplayApply(d, action, t, o) ==
    LET action_id == ActionId("display", action.action_type, t) IN
    IF action.action_type = "brightness_adjust"
    THEN IF action.intensity = NoneVal
         THEN [opt |-> d, raised |-> TRUE,
               result |-> ActionResult(action_id, FALSE, "raised", NoneVal, NoneVal, 0)]
         ELSE
           LET previous_brightness == d.current_brightness
               new_brightness == Max(10, previous_brightness
                                         - BrightnessReduction(action.intensity))
               saved == [d EXCEPT !.previous_states =
                            DictPut(@, action_id, [type |-> "brightness",
                                                   value |-> previous_brightness])]
           IN DisplayApplyWith(action, action_id, previous_brightness, new_brightness,
                               SetBrightness(saved, new_brightness, o))
    ELSE [opt |-> d, raised |-> FALSE,
          result |-> ActionResult(action_id, FALSE, "Unknown display action",
                                  NoneVal, NoneVal, 0)]

\* The return of the brightness branch, given _set_brightness's outcome; the
\* saved state is deleted whether or not the set succeeded.
DisplayRevertWith(action_id, value, set) ==
    [opt |-> [set.opt EXCEPT !.previous_states = DictDel(@, action_id)],
     result |-> ActionResult(action_id, set.success,
                   IF set.success THEN "" ELSE "Failed to revert brightness",
                   NoneVal,
                   IF set.success THEN value ELSE set.opt.current_brightness,
                   0)]

DisplayRevert(d, action_id, o) ==
    IF action_id \notin DOMAIN d.previous_states
    THEN [opt |-> d,
          result |-> ActionResult(action_id, FALSE, "Action not found in history",
                                  NoneVal, NoneVal, 0)]
    ELSE DisplayRevertWith(action_id, d.previous_states[action_id].value,
                           SetBrightness(d, d.previous_states[action_id].value, o))

----------------------------------------------------------------------------
(* CPUOptimizer *)

\* 100 - (action.intensity * 50)
MaxFreqPercent(intensity) == 100 - (intensity * 50) \div 100

CPUApply(c, action, t, o) ==
    LET action_id == ActionId("cpu", action.action_type, t) IN
    IF action.action_type = "cpu_throttle"
    THEN IF action.intensity = NoneVal
         THEN [opt |-> c, raised |-> TRUE,
               result |-> ActionResult(action_id, FALSE, "raised", NoneVal, NoneVal, 0)]
         ELSE
           LET success == (o = "ok")
               saved == [c EXCEPT !.previous_states =
                            DictPut(@, action_id, [type |-> "frequency", value |-> 100])]
           IN [opt |-> saved, raised |-> FALSE,
               result |-> ActionResult(action_id, success,
                             IF success THEN "" ELSE "Failed to throttle CPU",
                             100,
                             IF success THEN MaxFreqPercent(action.intensity) ELSE 100,
                             action.estimated_savings)]
    ELSE [opt |-> c, raised |-> FALSE,
          result |-> ActionResult(action_id, FALSE, "Unknown CPU action",
                                  NoneVal, NoneVal, 0)]

CPURevert(c, action_id, o) ==
    IF action_id \notin DOMAIN c.previous_states
    THEN [opt |-> c,
          result |-> ActionResult(action_id, FALSE, "Action not found in history",
                                  NoneVal, NoneVal, 0)]
    ELSE LET success == (o = "ok")
             after == IF success
                      THEN [c EXCEPT !.previous_states = DictDel(@, action_id)]
                      ELSE c
         IN [opt |-> after,
             result |-> ActionResult(action_id, success,
                           IF success THEN "" ELSE "Failed to revert CPU settings",
                           NoneVal, NoneVal, 0)]

----------------------------------------------------------------------------
(* NetworkOptimizer; _get_network_interface() is the one interface "eth0" *)

NetworkApply(n, action, t, o) ==
    LET action_id == ActionId("network", action.action_type, t) IN
    IF action.action_type = "network_limit"
    THEN IF action.intensity = NoneVal
         THEN [opt |-> n, raised |-> TRUE,
               result |-> ActionResult(action_id, FALSE, "raised", NoneVal, NoneVal, 0)]
         ELSE
           LET limit_mbps == 100 - action.intensity
               saved == [n EXCEPT !.previous_states =
                            DictPut(@, action_id,
                                    [type |-> "bandwidth_limit",
                                     had_limit |-> n.active_limits # NoneVal])]
               success == (o = "ok")
               after == IF success THEN [saved EXCEPT !.active_limits = limit_mbps]
                        ELSE saved
           IN [opt |-> after, raised |-> FALSE,
               result |-> ActionResult(action_id, success,
                             IF success THEN "" ELSE "Failed to limit network bandwidth",
                             after.active_limits,
                             IF success THEN limit_mbps ELSE NoneVal,
                             action.estimated_savings)]
    ELSE [opt |-> n, raised |-> FALSE,
          result |-> ActionResult(action_id, FALSE, "Unknown network action",
                                  NoneVal, NoneVal, 0)]

NetworkRevert(n, action_id, o) ==
    IF action_id \notin DOMAIN n.previous_states
    THEN [opt |-> n,
          result |-> ActionResult(action_id, FALSE, "Action not found in history",
                                  NoneVal, NoneVal, 0)]
    ELSE LET saved == n.previous_states[action_id]
             \* only a limit set on a previously unlimited interface is removed
             success == (~saved.had_limit) /\ (o = "ok")
             after == IF success
                      THEN [n EXCEPT !.active_limits = NoneVal,
                                     !.previous_states = DictDel(@, action_id)]
                      ELSE n
         IN [opt |-> after,
             result |-> ActionResult(action_id, success,
                           IF success THEN "" ELSE "Failed to revert network settings",
                           NoneVal, NoneVal, 0)]

----------------------------------------------------------------------------
(* ApplicationOptimizer *)

ApplicationApply(a, action, t, o) ==
    LET action_id == ActionId("app", action.action_type, t) IN
    IF action.action_type = "app_throttle"
    THEN IF action.target_component \in a.optimization_callbacks
         THEN \* the registered callback; an exception it raises is caught here
              IF o = "raise"
              THEN [opt |-> a, raised |-> FALSE,
                    result |-> ActionResult(action_id, FALSE,
                                  "Application optimizer error", NoneVal, NoneVal, 0)]
              ELSE [opt |-> [a EXCEPT !.previous_states =
                                DictPut(@, action_id, [type |-> "app_throttle"])],
                    raised |-> FALSE,
                    result |-> ActionResult(action_id, o = "ok",
                                  IF o = "ok" THEN "" ELSE "callback failed",
                                  NoneVal, NoneVal, action.estimated_savings)]
         ELSE \* _adjust_process_priority: succeeds iff a matching process was found
              IF o = "ok" /\ action.intensity # NoneVal
              THEN [opt |-> [a EXCEPT !.previous_states =
                                DictPut(@, action_id, [type |-> "process_priority"])],
                    raised |-> FALSE,
                    result |-> ActionResult(action_id, TRUE, "", NoneVal, NoneVal, 5)]
              ELSE [opt |-> a, raised |-> FALSE,
                    result |-> ActionResult(action_id, FALSE,
                                  "No processes found for application",
                                  NoneVal, NoneVal, 0)]
    ELSE [opt |-> a, raised |-> FALSE,
          result |-> ActionResult(action_id, FALSE, "Unknown application action",
                                  NoneVal, NoneVal, 0)]

ApplicationRevert(a, action_id, o) ==
    IF action_id \notin DOMAIN a.previous_states
    THEN [opt |-> a,
          result |-> ActionResult(action_id, FALSE, "Action not found in history",
                                  NoneVal, NoneVal, 0)]
    ELSE LET saved == a.previous_states[action_id] IN
         IF saved.type = "process_priority" /\ o # "raise"
         THEN [opt |-> [a EXCEPT !.previous_states = DictDel(@, action_id)],
               result |-> ActionResult(action_id, TRUE, "", NoneVal, NoneVal, 0)]
         ELSE [opt |-> a,
               result |-> ActionResult(action_id, FALSE,
                             IF saved.type = "process_priority"
                             THEN "Failed to revert process priorities"
                             ELSE "Unknown action type for reversion",
                             NoneVal, NoneVal, 0)]

----------------------------------------------------------------------------
(* OptimizationActuator *)

OptimizerNames == {"display", "cpu", "network", "application"}

BackendApply(name, opt, action, t, o) ==
    CASE name = "display" -> DisplayApply(opt, action, t, o)
      [] name = "cpu" -> CPUApply(opt, action, t, o)
      [] name = "network" -> NetworkApply(opt, action, t, o)
      [] OTHER -> ApplicationApply(opt, action, t, o)

BackendRevert(name, opt, action_id, o) ==
    CASE name = "display" -> DisplayRevert(opt, action_id, o)
      [] name = "cpu" -> CPURevert(opt, action_id, o)
      [] name = "network" -> NetworkRevert(opt, action_id, o)
      [] OTHER -> ApplicationRevert(opt, action_id, o)

\* _apply_single_action: route, refuse an unroutable kind or a disabled
\* optimizer without touching a backend, otherwise delegate.
ApplySingleActionWith(opts, name, r) ==
    [opts |-> [opts EXCEPT ![name] = r.opt], raised |-> r.raised, result |-> r.result]

\* _apply_single_action without its test of optimizer.enabled
ApplySingleIgnoringEnabled(opts, action, t, o) ==
    LET name == OptimizerMap(action.action_type) IN
    IF name = "none"
    THEN [opts |-> opts, raised |-> FALSE,
          result |-> ActionResult(ActionId("unknown", "", t), FALSE,
                                  "Unknown action type", NoneVal, NoneVal, 0)]
    ELSE ApplySingleActionWith(opts, name,
                               BackendApply(name, opts[name], action, t, o))

ApplySingleAction(opts, action, t, o) ==
    LET name == OptimizerMap(action.action_type) IN
    IF name = "none"
    THEN [opts |-> opts, raised |-> FALSE,
          result |-> ActionResult(ActionId("unknown", "", t), FALSE,
                                  "Unknown action type", NoneVal, NoneVal, 0)]
    ELSE IF ~opts[name].enabled
    THEN [opts |-> opts, raised |-> FALSE,
          result |-> ActionResult(ActionId("disabled", "", t), FALSE,
                                  "Optimizer disabled", NoneVal, NoneVal, 0)]
    ELSE ApplySingleActionWith(opts, name,
                               BackendApply(name, opts[name], action, t, o))

\* The result apply_actions records for one action: the backend's, or the
\* error result of the except branch.
ResultOrError(r, t) ==
    IF r.raised
    THEN ActionResult(ActionId("error", "", t), FALSE, "exception", NoneVal, NoneVal, 0)
    ELSE r.result

\* RecordActive without its test of result.success
RecordActiveAlways(active, action, result, t) ==
    ActivePut(active, [id |-> result.action_id, action |-> action,
                       result |-> result, timestamp |-> t])

\* if result.success: self.active_actions[result.action_id] = {...}
RecordActive(active, action, result, t) ==
    IF result.success
    THEN ActivePut(active, [id |-> result.action_id, action |-> action,
                            result |-> result, timestamp |-> t])
    ELSE active

\* One iteration of the for loop of apply_actions, given the result it records
ApplyIteration(st, opts, action, result, t) ==
    [optimizers |-> opts,
     active_actions |-> RecordActive(st.active_actions, action, result, t),
     results |-> Append(st.results, result)]

ApplyIterationWith(st, action, r, t) ==
    ApplyIteration(st, r.opts, action, ResultOrError(r, t), t)

\* The for loop of apply_actions over actions[i..]; st holds the optimizers,
\* the active dict and the results so far; ts[i] is the clock when action i
\* is applied and outs[i] the outcome of its platform primitive.
RECURSIVE ApplyLoop(_, _, _, _, _)
ApplyLoop(st, actions, outs, ts, i) ==
    IF i > Len(actions) THEN st
    ELSE ApplyLoop(ApplyIterationWith(st, actions[i],
                       ApplySingleAction(st.optimizers, actions[i], ts[i], outs[i]),
                       ts[i]),
                   actions, outs, ts, i + 1)

\* A history that is never cut
KeepHistory(h) == h

\* A cut that keeps the oldest entries
TrimToOldest(h) ==
    IF Len(h) > HistoryLimit THEN SubSeq(h, 1, HistoryKeep) ELSE h

\* if len(self.action_history) > 1000: self.action_history = self.action_history[-500:]
TrimHistory(h) ==
    IF Len(h) > HistoryLimit THEN SubSeq(h, Len(h) - HistoryKeep + 1, Len(h)) ELSE h

\* self.action_history.extend(results), then the trim
ExtendHistory(h, results) == TrimHistory(h \o results)

\* What apply_actions leaves and returns, given the state after its loop
ApplyActionsWith(history, st) ==
    [optimizers |-> st.optimizers, active_actions |-> st.active_actions,
     action_history |-> ExtendHistory(history, st.results),
     results |-> st.results]

\* apply_actions as a function of the executor's state
ApplyActionsOp(opts, active, history, actions, outs, ts) ==
    ApplyActionsWith(history,
                     ApplyLoop([optimizers |-> opts, active_actions |-> active,
                                results |-> <<>>], actions, outs, ts, 1))

\* AfterRevert without its test of result.success
AfterRevertAlways(active, action_id, result) == ActiveDel(active, action_id)

\* if result.success: del self.active_actions[action_id]
AfterRevert(active, action_id, result) ==
    IF result.success THEN ActiveDel(active, action_id) ELSE active

\* The tail of revert_action, given the backend's return r
RevertActionWith(opts, active, action_id, name, r) ==
    [optimizers |-> [opts EXCEPT ![name] = r.opt],
     active_actions |-> AfterRevert(active, action_id, r.result),
     invoked |-> TRUE,
     result |-> r.result]

\* A revert_action that reports success for an id that is not active
RevertMissingSucceeds(opts, active, action_id, o) ==
    IF action_id \notin ActiveIds(active)
    THEN [optimizers |-> opts, active_actions |-> active, invoked |-> FALSE,
          result |-> ActionResult(action_id, TRUE, "", NoneVal, NoneVal, 0)]
    ELSE LET name == OptimizerMap(ActiveGet(active, action_id).action.action_type)
         IN RevertActionWith(opts, active, action_id, name,
                             BackendRevert(name, opts[name], action_id, o))

\* revert_action as a function of the executor's state
RevertActionOp(opts, active, action_id, o) ==
    IF action_id \notin ActiveIds(active)
    THEN [optimizers |-> opts, active_actions |-> active, invoked |-> FALSE,
          result |-> ActionResult(action_id, FALSE,
                        "Action not found in active actions", NoneVal, NoneVal, 0)]
    ELSE LET name == OptimizerMap(ActiveGet(active, action_id).action.action_type)
         IN IF name = "none"
            THEN [optimizers |-> opts, active_actions |-> active, invoked |-> FALSE,
                  result |-> ActionResult(action_id, FALSE, "Optimizer not found",
                                          NoneVal, NoneVal, 0)]
            ELSE RevertActionWith(opts, active, action_id, name,
                                  BackendRevert(name, opts[name], action_id, o))

\* One iteration of the for loop of revert_all_actions, given revert_action's return
RevertIterationWith(st, r) ==
    [optimizers |-> r.optimizers,
     active_actions |-> r.active_actions,
     results |-> Append(st.results, r.result),
     invoked |-> Append(st.invoked, r.invoked)]

\* The for loop of revert_all_actions over the snapshot ids[i..].
RECURSIVE RevertLoop(_, _, _, _)
RevertLoop(st, ids, outs, i) ==
    IF i > Len(ids) THEN st
    ELSE RevertLoop(RevertIterationWith(st,
                        RevertActionOp(st.optimizers, st.active_actions, ids[i], outs[i])),
                    ids, outs, i + 1)

\* action_ids = list(self.active_actions.keys())
ActiveKeys(active) == [i \in DOMAIN active |-> active[i].id]

\* A revert_all_actions whose loop ends at the first failed revert
RECURSIVE RevertLoopUntilFailure(_, _, _, _)
RevertLoopUntilFailure(st, ids, outs, i) ==
    IF i > Len(ids) \/ (\E k \in DOMAIN st.results : ~st.results[k].success) THEN st
    ELSE RevertLoopUntilFailure(RevertIterationWith(st,
                        RevertActionOp(st.optimizers, st.active_actions, ids[i], outs[i])),
                    ids, outs, i + 1)

RevertAllUntilFailure(opts, active, outs) ==
    RevertLoopUntilFailure([optimizers |-> opts, active_actions |-> active,
                            results |-> <<>>, invoked |-> <<>>],
                           ActiveKeys(active), outs, 1)

\* revert_all_actions with no other thread in between
RevertAllOp(opts, active, outs) ==
    RevertLoop([optimizers |-> opts, active_actions |-> active,
                results |-> <<>>, invoked |-> <<>>], ActiveKeys(active), outs, 1)

\* The outcomes the primitives behind a batch / behind the active ids can have.
ApplyOutcomes(actions) ==
    {outs \in [DOMAIN actions -> Outcomes] :
        \A i \in DOMAIN actions :
            outs[i] \in PossibleOutcomes(platform, OptimizerMap(actions[i].action_type))}

RevertOutcomes(active) ==
    {outs \in [DOMAIN active -> Outcomes] :
        \A i \in DOMAIN active :
            outs[i] \in PossibleOutcomes(platform,
                                         OptimizerMap(active[i].action.action_type))}

\* The clock readings of a batch: adv = 0 when the clock does not advance
\* between two actions, 1 when it advances between any two.
Readings(actions, adv) == [i \in DOMAIN actions |-> now + (i - 1) * adv]

----------------------------------------------------------------------------
(* BatteryOptimizationAgent and BatteryRulesEngine (reasoning.py) *)

\* SystemMetrics: the fields the controller and the decision engine read.
\* seq numbers the snapshots in the order the monitor collected them.
SystemMetrics(seq, t, battery, power, cpu, gpu, net, brightness, app_cpu) ==
    [seq |-> seq, timestamp |-> t, battery_percent |-> battery,
     battery_power_draw |-> power, cpu_percent |-> cpu, gpu_percent |-> gpu,
     network_bytes |-> net, screen_brightness |-> brightness,
     target_app_cpu |-> app_cpu]

\* Battery tiers whose thresholds belong to the tier above
BatteryLevelBelow(battery_percent) ==
    IF battery_percent < 15 THEN "critical"
    ELSE IF battery_percent < 30 THEN "low"
    ELSE IF battery_percent < 60 THEN "medium"
    ELSE "high"

\* analyze_context: battery level
BatteryLevel(battery_percent) ==
    IF battery_percent <= 15 THEN "critical"
    ELSE IF battery_percent <= 30 THEN "low"
    ELSE IF battery_percent <= 60 THEN "medium"
    ELSE "high"

\* analyze_context: performance demand
PerformanceDemand(metrics) ==
    LET total_usage == metrics.cpu_percent + metrics.gpu_percent IN
    IF total_usage > 80 THEN "heavy"
    ELSE IF total_usage > 50 THEN "moderate"
    ELSE IF total_usage > 20 THEN "light"
    ELSE "idle"

\* analyze_context: user activity
UserActivity(metrics, hour) ==
    IF 23 <= hour \/ hour <= 6 THEN "sleeping"
    ELSE IF metrics.cpu_percent < 10 /\ metrics.target_app_cpu < 5 THEN "away"
    ELSE "active"

\* analyze_context: time of day
TimeOfDay(hour) ==
    IF 6 <= hour /\ hour < 12 THEN "morning"
    ELSE IF 12 <= hour /\ hour < 18 THEN "afternoon"
    ELSE IF 18 <= hour /\ hour < 22 THEN "evening"
    ELSE "night"

\* analyze_context: application priority
AppPriority(metrics) ==
    IF metrics.target_app_cpu > 20 THEN "critical"
    ELSE IF metrics.target_app_cpu > 5 THEN "foreground"
    ELSE "background"

AnalyzeContext(metrics, hour) ==
    [battery_level |-> BatteryLevel(metrics.battery_percent),
     performance_demand |-> PerformanceDemand(metrics),
     user_activity |-> UserActivity(metrics, hour),
     power_source |-> IF metrics.battery_power_draw < 5 THEN "plugged" ELSE "battery",
     time_of_day |-> TimeOfDay(hour),
     app_priority |-> AppPriority(metrics)]

CriticalBatteryRules(metrics) ==
    (IF metrics.screen_brightness > 20
     THEN <<OptimizationAction("brightness_adjust", 80, "display", 20, 30, 90)>>
     ELSE <<>>)
    \o (IF metrics.cpu_percent > 30
        THEN <<OptimizationAction("cpu_throttle", 70, "system", 25, 60, 85)>>
        ELSE <<>>)

LowBatteryRules(metrics) ==
    (IF metrics.screen_brightness > 50
     THEN <<OptimizationAction("brightness_adjust", 40, "display", 10, 15, 80)>>
     ELSE <<>>)
    \o (IF metrics.cpu_percent > 60
        THEN <<OptimizationAction("cpu_throttle", 30, "system", 12, 25, 75)>>
        ELSE <<>>)

PerformanceRules(metrics) ==
    IF metrics.target_app_cpu < 50
    THEN <<OptimizationAction("background_limit", 50, "system", 8, 10, 70)>>
    ELSE <<>>

AwayModeRules(metrics) ==
    <<OptimizationAction("brightness_adjust", 90, "display", 30, 10, 95)>>
    \o (IF metrics.network_bytes > 1024 * 1024
        THEN <<OptimizationAction("network_limit", 60, "network", 15, 20, 80)>>
        ELSE <<>>)

\* BatteryRulesEngine.get_rule_based_actions
RuleBasedActions(metrics, context) ==
    (IF context.battery_level = "critical" THEN CriticalBatteryRules(metrics)
     ELSE IF context.battery_level = "low" THEN LowBatteryRules(metrics)
     ELSE <<>>)
    \o (IF context.performance_demand = "heavy"
           /\ context.battery_level \in {"low", "critical"}
        THEN PerformanceRules(metrics) ELSE <<>>)
    \o (IF context.user_activity = "away" THEN AwayModeRules(metrics) ELSE <<>>)

\* _prediction_to_actions: the action templates of the four classes
PredictionToActions(prediction, confidence, metrics, context) ==
    CASE prediction = 1 ->
           IF metrics.screen_brightness > 60
           THEN <<OptimizationAction("brightness_adjust", 30, "display", 5, 10, confidence)>>
           ELSE <<>>
      [] prediction = 2 ->
           (IF metrics.cpu_percent > 50
            THEN <<OptimizationAction("cpu_throttle", 50, "system", 10, 30, confidence)>>
            ELSE <<>>)
           \o (IF metrics.screen_brightness > 40
               THEN <<OptimizationAction("brightness_adjust", 50, "display", 8, 20,
                                         confidence)>>
               ELSE <<>>)
      [] prediction = 3 ->
           <<OptimizationAction("cpu_throttle", 80, "system", 20, 60, confidence),
             OptimizationAction("brightness_adjust", 70, "display", 15, 40, confidence)>>
           \o (IF context.app_priority # "critical"
               THEN <<OptimizationAction("app_throttle", 60, "target_app", 12, 50,
                                         confidence)>>
               ELSE <<>>)
      [] OTHER -> <<>>

\* A classifier tier that answers with its strongest class when it fails
MLDecisionFallsBack(ml, metrics, context) ==
    PredictionToActions(IF ml.failed THEN 3 ELSE ml.prediction, 90, metrics, context)

\* The classifier's answer is an input: [failed, prediction, confidence];
\* _ml_decision turns a failure of the classifier into no actions.
MLDecision(ml, metrics, context) ==
    IF ml.failed THEN <<>>
    ELSE PredictionToActions(ml.prediction, ml.confidence, metrics, context)

\* f"{action.action_type}_{action.target_component}"
ActionKey(action) == <<action.action_type, action.target_component>>

KeyIndex(combined, key) == CHOOSE i \in DOMAIN combined : ActionKey(combined[i]) = key

\* combined[key] = action, for a classifier action
CombinePutML(combined, action) ==
    IF \E i \in DOMAIN combined : ActionKey(combined[i]) = ActionKey(action)
    THEN [combined EXCEPT ![KeyIndex(combined, ActionKey(action))] = action]
    ELSE Append(combined, action)

\* A merge in which the first action of a key always stands
CombinePutFirst(combined, action) ==
    IF \E i \in DOMAIN combined : ActionKey(combined[i]) = ActionKey(action)
    THEN combined
    ELSE Append(combined, action)

\* The rule loop's body: add for a new key, replace only by a lower intensity
CombinePutRule(combined, action) ==
    IF \E i \in DOMAIN combined : ActionKey(combined[i]) = ActionKey(action)
    THEN IF action.intensity < combined[KeyIndex(combined, ActionKey(action))].intensity
         THEN [combined EXCEPT ![KeyIndex(combined, ActionKey(action))] = action]
         ELSE combined
    ELSE Append(combined, action)

RECURSIVE CombineML(_, _, _)
CombineML(combined, ml_actions, i) ==
    IF i > Len(ml_actions) THEN combined
    ELSE CombineML(CombinePutML(combined, ml_actions[i]), ml_actions, i + 1)

RECURSIVE CombineRules(_, _, _)
CombineRules(combined, rule_actions, i) ==
    IF i > Len(rule_actions) THEN combined
    ELSE CombineRules(CombinePutRule(combined, rule_actions[i]), rule_actions, i + 1)

\* _combine_actions: list(combined.values())
CombineActions(ml_actions, rule_actions) ==
    CombineRules(CombineML(<<>>, ml_actions, 1), rule_actions, 1)

DecideWith(ml, metrics, context) ==
    CombineActions(MLDecision(ml, metrics, context), RuleBasedActions(metrics, context))

\* decide_optimization (model_trained is true once the agent is constructed)
DecideOptimization(metrics, hour, ml) ==
    DecideWith(ml, metrics, AnalyzeContext(metrics, hour))

----------------------------------------------------------------------------
(* State after construction *)

\* decision_interval of the default configuration, seconds
DecisionInterval == 10

\* _get_current_brightness() where the platform gives no reading
FallbackBrightness == 75

NoId == ActionId("none", "", 0)

NoMetrics == SystemMetrics(0, 0, 0, 0, 0, 0, 0, 0, 0)

\* ev: op names the step; actions is the batch handed to apply_actions and
\* applied tells whether apply_actions was called; id, results and invoked
\* describe reverts; metrics and thread name the snapshot and the thread;
\* emergency is the emergency flag the ingestion handler found.
NoEvent == [op |-> "init", actions |-> <<>>, applied |-> FALSE, id |-> NoId,
            results |-> <<>>, invoked |-> <<>>, metrics |-> NoMetrics, thread |-> 0,
            emergency |-> FALSE]

\* BaseOptimizer.__init__ and the four subclasses' __init__
InitOptimizers ==
    [display |-> [enabled |-> TRUE, previous_states |-> EmptyDict,
                  current_brightness |-> FallbackBrightness],
     cpu |-> [enabled |-> TRUE, previous_states |-> EmptyDict],
     network |-> [enabled |-> TRUE, previous_states |-> EmptyDict,
                  active_limits |-> NoneVal],
     application |-> [enabled |-> TRUE, previous_states |-> EmptyDict,
                      optimization_callbacks |-> {}]]

\* OptimizationActuator.__init__; the wall clock is far past the epoch, so
\* the first reading is at least one decision interval.
InitExecutor ==
    /\ now = DecisionInterval
    /\ platform \in {"linux", "other"}
    /\ optimizers = InitOptimizers
    /\ active_actions = <<>>
    /\ action_history = <<>>
    /\ calls = 0
    /\ ev = NoEvent

\* Bound on the number of threads of one kind alive at a time.
MaxThreads == 2

Threads == 1 .. MaxThreads

\* A thread that is in no call of the executor
IdleWorker == [pc |-> "idle", call |-> "none", actions |-> <<>>, i |-> 0,
               results |-> <<>>, action_ids |-> <<>>, action_id |-> NoId]

DeadProducer == [pc |-> "dead", metrics |-> NoMetrics, next |-> 0]
DeadConsumer == [pc |-> "dead", last_decision_time |-> 0, current_time |-> 0,
                 metrics |-> NoMetrics]
IdleCaller == [pc |-> "idle", ids |-> <<>>, results |-> <<>>, joined |-> <<>>]

\* AgentController.__init__ with the default configuration, SystemMonitor.__init__
InitController ==
    /\ running = FALSE
    /\ state = [active |-> FALSE, battery_level |-> "unknown",
                optimization_mode |-> "adaptive", actions_applied |-> 0,
                total_savings |-> 0, last_decision_time |-> 0]
    /\ config = [max_performance_impact |-> 70]
    /\ emergency_mode = FALSE
    /\ decision_queue = <<>>
    /\ agent_thread = 0
    /\ monitor = [running |-> FALSE, callbacks |-> 0, monitor_thread |-> 0,
                  collected |-> 0]
    /\ producers = [p \in Threads |-> DeadProducer]
    /\ consumers = [c \in Threads |-> DeadConsumer]
    /\ caller = IdleCaller
    /\ decisions = <<>>
    /\ action_lock = 0
    /\ workers = [w \in Threads |-> IdleWorker]

\* The thread inside _update_model and the thread inside _ml_decision
IdleUpdate == [pc |-> "idle", generation |-> 0,
               before |-> [scaler |-> 0, decision_model |-> 0]]
IdleInference == [pc |-> "idle", scaler |-> 0]

\* BatteryOptimizationAgent.__init__: the scaler and the classifier are fitted
\* on the same (loaded or synthetic) data, training generation 0; no feedback
\* and no decision is recorded.  scaler and decision_model hold the training
\* generation each object was last fitted on; action_outcomes and
\* experience_buffer hold lengths (with_actions: the records whose decision
\* proposed an action, the rows of the retraining data).
NewAgent ==
    [scaler |-> 0, decision_model |-> 0, action_outcomes |-> 0,
     experience_buffer |-> [records |-> 0, with_actions |-> 0],
     update |-> IdleUpdate, inference |-> IdleInference]

InitAgent == agent = NewAgent

Init == InitExecutor /\ InitController /\ InitAgent

----------------------------------------------------------------------------
(* The executor driven by one caller: every call runs to completion before  *)
(* the next one starts.                                                     *)

\* Bound on the number of executor calls of one behaviour.
MaxCalls == 3

\* The two actions of the actuator's own usage example
TestBrightness == OptimizationAction("brightness_adjust", 30, "display", 10, 10, 80)
TestCpu == OptimizationAction("cpu_throttle", 50, "system", 15, 40, 70)
\* An action whose intensity is None: the backend's arithmetic raises
MalformedCpu == OptimizationAction("cpu_throttle", NoneVal, "system", 15, 40, 70)
\* An action kind the routing table does not know
UnroutableAction == OptimizationAction("gpu_limit", 30, "gpu", 10, 10, 80)

ExecBatches ==
    { <<TestBrightness, TestCpu>>,
      <<TestBrightness, TestBrightness>>,
      <<UnroutableAction, MalformedCpu, TestCpu>> }

\* An id no apply has produced
MissingId == ActionId("display", "brightness_adjust", 0)

\* apply_actions(batch)
ExecApplyWith(batch, r) ==
    /\ optimizers' = r.optimizers
    /\ active_actions' = r.active_actions
    /\ action_history' = r.action_history
    /\ ev' = [NoEvent EXCEPT !.op = "apply_actions", !.actions = batch,
                             !.results = r.results]

ExecApply(batch, outs, adv) ==
    /\ calls < MaxCalls
    /\ ExecApplyWith(batch, ApplyActionsOp(optimizers, active_actions, action_history,
                                           batch, outs, Readings(batch, adv)))
    /\ now' = now + Len(batch) * adv
    /\ calls' = calls + 1
    /\ UNCHANGED <<platform, agent, lockVars, ctlVars>>

\* revert_action(action_id)
ExecRevertWith(action_id, r) ==
    /\ optimizers' = r.optimizers
    /\ active_actions' = r.active_actions
    /\ ev' = [NoEvent EXCEPT !.op = "revert_action", !.id = action_id,
                             !.results = <<r.result>>, !.invoked = <<r.invoked>>]

ExecRevert(action_id, o) ==
    /\ calls < MaxCalls
    /\ ExecRevertWith(action_id,
                      RevertActionOp(optimizers, active_actions, action_id, o))
    /\ calls' = calls + 1
    /\ UNCHANGED <<now, platform, agent, lockVars, action_history, ctlVars>>

\* revert_all_actions()
ExecRevertAllWith(r) ==
    /\ optimizers' = r.optimizers
    /\ active_actions' = r.active_actions
    /\ ev' = [NoEvent EXCEPT !.op = "revert_all_actions",
                             !.results = r.results, !.invoked = r.invoked]

ExecRevertAll(outs) ==
    /\ calls < MaxCalls
    /\ ExecRevertAllWith(RevertAllOp(optimizers, active_actions, outs))
    /\ calls' = calls + 1
    /\ UNCHANGED <<now, platform, agent, lockVars, action_history, ctlVars>>

ExecApplyStep ==
    /\ calls < MaxCalls
    /\ \E batch \in ExecBatches : \E outs \in ApplyOutcomes(batch) :
           \E adv \in {0, 1} : ExecApply(batch, outs, adv)

\* revert_action(action_id) for an active id, for an id some result of the
\* history carries (one reverted since, among others) or for an id never issued
ExecRevertStep ==
    /\ calls < MaxCalls
    /\ \E action_id \in ActiveIds(active_actions) \cup {MissingId}
                            \cup {action_history[k].action_id : k \in DOMAIN action_history} :
           \E o \in {"ok", "fail"} : ExecRevert(action_id, o)

ExecRevertAllStep ==
    /\ calls < MaxCalls
    /\ \E outs \in RevertOutcomes(active_actions) : ExecRevertAll(outs)

NextExec == ExecApplyStep \/ ExecRevertStep \/ ExecRevertAllStep

SpecExec == Init /\ [][NextExec]_vars

----------------------------------------------------------------------------
(* AgentController and SystemMonitor: the caller of the control API, the    *)
(* producer threads (_monitor_loop) and the consumer threads (_agent_loop). *)
(* A thread lives in a slot; a slot is free again once its thread is dead.  *)

\* Bound on the number of API calls and collected snapshots.
MaxEvents == 5

\* emergency_battery_threshold of the default configuration, percent
EmergencyBatteryThreshold == 5

\* optimization_modes of the default configuration
OptimizationModes ==
    [aggressive |-> [max_intensity |-> 90, min_confidence |-> 60],
     balanced |-> [max_intensity |-> 60, min_confidence |-> 70],
     conservative |-> [max_intensity |-> 30, min_confidence |-> 80]]

\* The battery readings the monitor collects: at or below the emergency
\* threshold, and above it in the critical tier
BatteryReadings == {3, 8}

\* _get_screen_brightness
MonitorBrightness(p) ==
    IF p = "windows" THEN 75 ELSE IF p = "linux" THEN 80 ELSE 70

\* collect_metrics: a busy machine on battery, no GPU, no target application
CollectMetrics(seq, battery) ==
    SystemMetrics(seq, now, battery, 10, 80, 0, 0, MonitorBrightness(platform), 0)

\* time.localtime().tm_hour and the classifier's answers, as decide sees them
Hour == 12
ClassifierAnswers == { [failed |-> FALSE, prediction |-> 0, confidence |-> 90] }

\* The seconds that pass when the clock advances: one decision interval
ClockAdvance == DecisionInterval

\* Bound on the clock.
MaxTime == 20

\* The preferences the caller loads
Preferences ==
    { [optimization_mode |-> "aggressive", max_performance_impact |-> 70],
      [optimization_mode |-> "conservative", max_performance_impact |-> 20] }

\* The lowest free slot of a thread table
FreeSlot(threads) ==
    CHOOSE i \in DOMAIN threads :
        /\ threads[i].pc = "dead"
        /\ \A j \in DOMAIN threads : threads[j].pc = "dead" => i <= j

HasFreeSlot(threads) == \E i \in DOMAIN threads : threads[i].pc = "dead"

\* The battery tier _on_metrics_update stores in the state
StateBatteryLevel(battery_percent) ==
    IF battery_percent <= 15 THEN "critical"
    ELSE IF battery_percent <= 30 THEN "low"
    ELSE IF battery_percent <= 60 THEN "medium"
    ELSE "high"

\* emergency_actions of _apply_emergency_optimizations
EmergencyActions ==
    << OptimizationAction("brightness_adjust", 90, "display", 25, 30, 95),
       OptimizationAction("cpu_throttle", 80, "system", 30, 70, 90) >>

\* A mode filter that does not look at the performance impact
FilterByModeOnly(actions, mode, max_performance_impact) ==
    SelectSeq(actions,
              LAMBDA action :
                  /\ ~(action.intensity > OptimizationModes[mode].max_intensity)
                  /\ ~(action.confidence < OptimizationModes[mode].min_confidence))

\* _filter_actions_by_mode, for a mode of the configuration
FilterActionsByMode(actions, mode, max_performance_impact) ==
    SelectSeq(actions,
              LAMBDA action :
                  /\ ~(action.intensity > OptimizationModes[mode].max_intensity)
                  /\ ~(action.confidence < OptimizationModes[mode].min_confidence)
                  /\ ~(action.performance_impact > max_performance_impact))

\* The emergency bundle as a mode filter would leave it
FilteredEmergencyActions(mode, max_performance_impact) ==
    IF mode \in DOMAIN OptimizationModes
    THEN FilterActionsByMode(EmergencyActions, mode, max_performance_impact)
    ELSE <<>>

\* The batch _apply_emergency_optimizations hands to apply_actions
EmergencyBatch(mode, max_performance_impact) == EmergencyActions

\* What an executor call that is not made leaves and returns
NoApply ==
    [optimizers |-> optimizers, active_actions |-> active_actions,
     action_history |-> action_history, results |-> <<>>]

\* time.time() does not advance inside one batch of the controller
BatchReadings(actions) == Readings(actions, 0)

\* _on_metrics_update: the emergency flag after the handler
EmergencyAfter(flag, battery_percent) ==
    IF battery_percent <= EmergencyBatteryThreshold
    THEN IF ~flag THEN TRUE ELSE flag
    ELSE IF flag THEN FALSE ELSE flag

\* An entry check that does not look at the flag
EntersWhenever(flag, battery_percent) ==
    battery_percent <= EmergencyBatteryThreshold

\* _on_metrics_update: whether _apply_emergency_optimizations is called
EntersEmergency(flag, battery_percent) ==
    battery_percent <= EmergencyBatteryThreshold /\ ~flag

\* An exit that reverts every active action
EmergencyExitReverting(opts, active, history) ==
    LET r == RevertAllOp(opts, active, [i \in DOMAIN active |-> "ok"]) IN
    [optimizers |-> r.optimizers, active_actions |-> r.active_actions,
     action_history |-> history, results |-> r.results]

\* _on_metrics_update: what leaving the emergency does to the executor
EmergencyExit(opts, active, history) ==
    [optimizers |-> opts, active_actions |-> active, action_history |-> history,
     results |-> <<>>]

OnMetricsUpdateWith(metrics, enters, batch, r) ==
    /\ state' = [state EXCEPT !.battery_level = StateBatteryLevel(metrics.battery_percent)]
    /\ emergency_mode' = EmergencyAfter(emergency_mode, metrics.battery_percent)
    /\ optimizers' = r.optimizers
    /\ active_actions' = r.active_actions
    /\ action_history' = r.action_history
    /\ decision_queue' = Append(decision_queue, metrics)
    /\ ev' = [NoEvent EXCEPT !.op = "metrics_update", !.metrics = metrics,
                             !.emergency = emergency_mode,
                             !.applied = enters,
                             !.actions = IF enters THEN batch ELSE <<>>,
                             !.results = r.results]

\* _on_metrics_update(metrics); outs are the outcomes of the bundle's primitives
OnMetricsUpdate(metrics, outs) ==
    LET enters == EntersEmergency(emergency_mode, metrics.battery_percent)
        batch == EmergencyBatch(state.optimization_mode, config.max_performance_impact)
    IN OnMetricsUpdateWith(metrics, enters, batch,
           IF enters
           THEN ApplyActionsOp(optimizers, active_actions, action_history, batch,
                               [i \in DOMAIN batch |-> outs[i]], BatchReadings(batch))
           ELSE IF metrics.battery_percent > EmergencyBatteryThreshold /\ emergency_mode
                THEN EmergencyExit(optimizers, active_actions, action_history)
                ELSE NoApply)

\* SystemMonitor._monitor_loop: the loop test and collect_metrics
ProducerCollect(p, battery) ==
    /\ calls < MaxEvents
    /\ producers[p].pc = "loop"
    /\ monitor.running
    /\ producers' = [producers EXCEPT ![p] =
           [pc |-> IF monitor.callbacks = 0 THEN "loop" ELSE "notify",
            metrics |-> CollectMetrics(monitor.collected + 1, battery),
            next |-> 1]]
    /\ monitor' = [monitor EXCEPT !.collected = @ + 1]
    /\ calls' = calls + 1
    /\ ev' = [NoEvent EXCEPT !.op = "collect", !.thread = p,
                             !.metrics = CollectMetrics(monitor.collected + 1, battery)]
    /\ UNCHANGED <<now, platform, agent, lockVars, execVars, running, state, config, emergency_mode,
                   decision_queue, agent_thread, consumers, caller, decisions>>

\* SystemMonitor._monitor_loop: the loop test fails
ProducerExit(p) ==
    /\ producers[p].pc = "loop"
    /\ ~monitor.running
    /\ producers' = [producers EXCEPT ![p] = DeadProducer]
    /\ ev' = [NoEvent EXCEPT !.op = "producer_exit", !.thread = p]
    /\ UNCHANGED <<now, platform, agent, lockVars, execVars, running, state, config, emergency_mode,
                   decision_queue, agent_thread, monitor, consumers, caller,
                   decisions, calls>>

\* A monitor loop that ends when an iteration fails
ProducerDiesOnFailure(p) ==
    /\ calls < MaxEvents
    /\ producers[p].pc \in {"loop", "notify"}
    /\ producers' = [producers EXCEPT ![p] = DeadProducer]
    /\ ev' = [NoEvent EXCEPT !.op = "collect_failed", !.thread = p]
    /\ calls' = calls + 1
    /\ UNCHANGED <<now, platform, agent, lockVars, execVars, running, state, config, emergency_mode,
                   decision_queue, agent_thread, monitor, consumers, caller, decisions>>

\* SystemMonitor._monitor_loop: collect_metrics raises and the outer except
\* branch logs, sleeps and goes back to the loop test; or the callback raises
\* and the inner except branch logs and goes on to the next callback
ProducerFails(p) ==
    /\ calls < MaxEvents
    /\ \/ /\ producers[p].pc = "loop"
          /\ monitor.running
          /\ producers' = producers
          /\ ev' = [NoEvent EXCEPT !.op = "collect_failed", !.thread = p]
       \/ /\ producers[p].pc = "notify"
          /\ producers' = [producers EXCEPT ![p] =
                 IF producers[p].next >= monitor.callbacks
                 THEN [pc |-> "loop", metrics |-> NoMetrics, next |-> 0]
                 ELSE [@ EXCEPT !.next = @ + 1]]
          /\ ev' = [NoEvent EXCEPT !.op = "callback_failed", !.thread = p,
                                   !.metrics = producers[p].metrics]
    /\ calls' = calls + 1
    /\ UNCHANGED <<now, platform, agent, lockVars, execVars, running, state, config, emergency_mode,
                   decision_queue, agent_thread, monitor, consumers, caller, decisions>>

\* SystemMonitor._monitor_loop: the next registered callback is called
ProducerCallback(p, outs) ==
    /\ producers[p].pc = "notify"
    /\ OnMetricsUpdate(producers[p].metrics, outs)
    /\ producers' = [producers EXCEPT ![p] =
           IF producers[p].next >= monitor.callbacks
           THEN [pc |-> "loop", metrics |-> NoMetrics, next |-> 0]
           ELSE [@ EXCEPT !.next = @ + 1]]
    /\ UNCHANGED <<now, platform, agent, lockVars, running, config, agent_thread, monitor, consumers,
                   caller, decisions, calls>>

\* A consumer thread is waiting in decision_queue.get ("get"), is inside
\* _make_optimization_decision ("decide"), or has ended; the loop test is
\* made at the end of the step that finishes an iteration.

\* An agent loop that goes back to waiting whatever the flag says
ConsumerKeepsWaiting(c) ==
    /\ consumers[c].pc = "get"
    /\ decision_queue = <<>>
    /\ ~running
    /\ ev' = [NoEvent EXCEPT !.op = "consumer_wait", !.thread = c]
    /\ UNCHANGED <<now, platform, agent, lockVars, execVars, ctlVars, calls>>

\* _agent_loop: decision_queue.get(timeout=1.0) raises queue.Empty and the
\* loop test fails (while the flag is set the thread goes back to waiting)
ConsumerExit(c) ==
    /\ consumers[c].pc = "get"
    /\ decision_queue = <<>>
    /\ ~running
    /\ consumers' = [consumers EXCEPT ![c] = DeadConsumer]
    /\ ev' = [NoEvent EXCEPT !.op = "consumer_exit", !.thread = c]
    /\ UNCHANGED <<now, platform, agent, lockVars, execVars, running, state, config, emergency_mode,
                   decision_queue, agent_thread, monitor, producers, caller,
                   decisions, calls>>

\* The debounce test of _agent_loop
TooSoon(current_time, last_decision_time) ==
    current_time - last_decision_time < DecisionInterval

\* _agent_loop: decision_queue.get returns a snapshot; the debounce test
ConsumerGet(c) ==
    /\ consumers[c].pc = "get"
    /\ decision_queue # <<>>
    /\ decision_queue' = Tail(decision_queue)
    /\ IF TooSoon(now, consumers[c].last_decision_time)
       THEN /\ consumers' = [consumers EXCEPT ![c] =
                   IF running THEN @ ELSE DeadConsumer]
            /\ decisions' = decisions
            /\ ev' = [NoEvent EXCEPT !.op = "discard", !.thread = c,
                                     !.metrics = Head(decision_queue)]
       ELSE /\ consumers' = [consumers EXCEPT ![c] =
                   [@ EXCEPT !.pc = "decide", !.current_time = now,
                             !.metrics = Head(decision_queue)]]
            /\ decisions' = Append(decisions,
                   [thread |-> c, time |-> now, period |-> monitor.callbacks,
                    running |-> running])
            /\ ev' = [NoEvent EXCEPT !.op = "dequeue", !.thread = c,
                                     !.metrics = Head(decision_queue)]
    /\ UNCHANGED <<now, platform, agent, lockVars, execVars, running, state, config, emergency_mode,
                   agent_thread, monitor, producers, caller, calls>>

RECURSIVE SumSavings(_, _)
\* sum(r.estimated_savings for r in successful_actions), from result i on
SumSavings(results, i) ==
    IF i > Len(results) THEN 0
    ELSE (IF results[i].success THEN results[i].estimated_savings ELSE 0)
         + SumSavings(results, i + 1)

\* _make_optimization_decision up to the call of apply_actions: whether the
\* mode filter is called, whether it raises (the state's mode is not a key of
\* optimization_modes), and the batch that is handed on
FilterStep(actions, mode, max_performance_impact) ==
    IF actions = <<>>
    THEN [filter_called |-> FALSE, raised |-> FALSE, filtered |-> <<>>]
    ELSE IF mode \notin DOMAIN OptimizationModes
         THEN [filter_called |-> TRUE, raised |-> TRUE, filtered |-> <<>>]
         ELSE [filter_called |-> TRUE, raised |-> FALSE,
               filtered |-> FilterActionsByMode(actions, mode, max_performance_impact)]

ConsumerDecideWith(c, filtered, r) ==
    /\ optimizers' = r.optimizers
    /\ active_actions' = r.active_actions
    /\ action_history' = r.action_history
    /\ state' = [state EXCEPT
           !.actions_applied = @ + Cardinality({i \in DOMAIN r.results :
                                                   r.results[i].success}),
           !.total_savings = @ + SumSavings(r.results, 1),
           !.last_decision_time = consumers[c].current_time]
    /\ consumers' = [consumers EXCEPT ![c] =
           IF running
           THEN [pc |-> "get", last_decision_time |-> consumers[c].current_time,
                 current_time |-> 0, metrics |-> NoMetrics]
           ELSE DeadConsumer]
    /\ decision_queue' = <<>>
    /\ ev' = [NoEvent EXCEPT !.op = "decision", !.thread = c,
                             !.metrics = consumers[c].metrics,
                             !.applied = (filtered # <<>>),
                             !.actions = filtered,
                             !.results = r.results]

\* _agent_loop: _make_optimization_decision(metrics), the two assignments of
\* the decision time and the drain of the queue
ConsumerDecide(c, filtered, outs) ==
    /\ consumers[c].pc = "decide"
    /\ ConsumerDecideWith(c, filtered,
           IF filtered = <<>> THEN NoApply
           ELSE ApplyActionsOp(optimizers, active_actions, action_history, filtered,
                               outs, BatchReadings(filtered)))
    /\ UNCHANGED <<now, platform, agent, lockVars, running, config, emergency_mode, agent_thread,
                   monitor, producers, caller, decisions, calls>>

\* The batch a decision cycle of consumer c hands to apply_actions
DecisionBatch(c, ml) ==
    FilterStep(DecideOptimization(consumers[c].metrics, Hour, ml),
               state.optimization_mode, config.max_performance_impact).filtered

\* start()
Start ==
    /\ calls < MaxEvents
    /\ caller.pc = "idle"
    /\ HasFreeSlot(producers) /\ HasFreeSlot(consumers)
    /\ IF running
       THEN /\ ev' = [NoEvent EXCEPT !.op = "start_ignored"]
            /\ UNCHANGED <<running, state, monitor, producers, consumers, agent_thread>>
       ELSE /\ running' = TRUE
            /\ state' = [state EXCEPT !.active = TRUE]
            /\ monitor' = [monitor EXCEPT
                   !.running = TRUE,
                   !.monitor_thread = IF monitor.running THEN @ ELSE FreeSlot(producers),
                   !.callbacks = @ + 1]
            /\ producers' = IF monitor.running THEN producers
                            ELSE [producers EXCEPT ![FreeSlot(producers)] =
                                     [pc |-> "loop", metrics |-> NoMetrics, next |-> 0]]
            /\ consumers' = [consumers EXCEPT ![FreeSlot(consumers)] =
                   [pc |-> "get", last_decision_time |-> 0, current_time |-> 0,
                    metrics |-> NoMetrics]]
            /\ agent_thread' = FreeSlot(consumers)
            /\ ev' = [NoEvent EXCEPT !.op = "start"]
    /\ calls' = calls + 1
    /\ UNCHANGED <<now, platform, agent, lockVars, execVars, config, emergency_mode, decision_queue,
                   caller, decisions>>

\* Thread.join(timeout=5.0) returns: the thread has ended, or it is inside a
\* call that can last longer than the timeout (a handler or a decision cycle
\* running platform commands); a thread that is only waiting ends within the
\* timeout.
ProducerJoinReturns(p) == p = 0 \/ producers[p].pc \in {"dead", "notify"}
ConsumerJoinReturns(c) == c = 0 \/ consumers[c].pc \in {"dead", "decide"}

\* stop(): the running test, the two flags and monitor.stop() up to its join
StopBegin ==
    /\ calls < MaxEvents
    /\ caller.pc = "idle"
    /\ IF ~running
       THEN /\ ev' = [NoEvent EXCEPT !.op = "stop_ignored"]
            /\ UNCHANGED <<running, state, monitor, caller>>
       ELSE /\ running' = FALSE
            /\ state' = [state EXCEPT !.active = FALSE]
            /\ monitor' = [monitor EXCEPT !.running = FALSE]
            /\ caller' = [IdleCaller EXCEPT !.pc = "stop_monitor"]
            /\ ev' = [NoEvent EXCEPT !.op = "stop_begin"]
    /\ calls' = calls + 1
    /\ UNCHANGED <<now, platform, agent, lockVars, execVars, config, emergency_mode, decision_queue,
                   agent_thread, producers, consumers, decisions>>

\* stop(): monitor.stop() returns from its join and revert_all_actions() reads
\* the keys of the active-action map
StopRevertAll ==
    /\ caller.pc = "stop_monitor"
    /\ ProducerJoinReturns(monitor.monitor_thread)
    /\ caller' = [caller EXCEPT
           !.pc = IF active_actions = <<>> THEN "stop_join" ELSE "stop_revert",
           !.ids = ActiveKeys(active_actions),
           !.joined = <<monitor.monitor_thread = 0
                          \/ producers[monitor.monitor_thread].pc = "dead">>]
    /\ ev' = [NoEvent EXCEPT !.op = "revert_all_actions"]
    /\ UNCHANGED <<now, platform, agent, lockVars, execVars, running, state, config, emergency_mode,
                   decision_queue, agent_thread, monitor, producers, consumers,
                   decisions, calls>>

StopRevertActionWith(action_id, r) ==
    /\ optimizers' = r.optimizers
    /\ active_actions' = r.active_actions
    /\ caller' = [caller EXCEPT
           !.pc = IF Len(caller.ids) = 1 THEN "stop_join" ELSE "stop_revert",
           !.ids = Tail(@),
           !.results = Append(@, r.result)]
    /\ ev' = [NoEvent EXCEPT !.op = "revert_action", !.id = action_id,
                             !.results = <<r.result>>, !.invoked = <<r.invoked>>]

\* stop(): revert_all_actions() calls revert_action for the next key it read
StopRevertAction(o) ==
    /\ caller.pc = "stop_revert"
    /\ StopRevertActionWith(Head(caller.ids),
           RevertActionOp(optimizers, active_actions, Head(caller.ids), o))
    /\ UNCHANGED <<now, platform, agent, lockVars, action_history, running, state, config,
                   emergency_mode, decision_queue, agent_thread, monitor, producers,
                   consumers, decisions, calls>>

\* stop(): agent_thread.join(timeout=5.0) returns and so does stop()
StopReturn ==
    /\ caller.pc = "stop_join"
    /\ ConsumerJoinReturns(agent_thread)
    /\ caller' = IdleCaller
    /\ ev' = [NoEvent EXCEPT
           !.op = "stop", !.results = caller.results,
           !.invoked = Append(caller.joined,
                              agent_thread = 0 \/ consumers[agent_thread].pc = "dead")]
    /\ UNCHANGED <<now, platform, agent, lockVars, execVars, running, state, config, emergency_mode,
                   decision_queue, agent_thread, monitor, producers, consumers,
                   decisions, calls>>

\* set_optimization_mode(mode)
SetOptimizationMode(st, mode) ==
    IF mode \in DOMAIN OptimizationModes
    THEN [st EXCEPT !.optimization_mode = mode]
    ELSE st

\* load_user_preferences(preferences) with a mode and a performance-impact cap
LoadUserPreferences(preferences) ==
    /\ caller.pc = "idle"
    /\ state' = SetOptimizationMode(state, preferences.optimization_mode)
    /\ config' = [config EXCEPT
           !.max_performance_impact = preferences.max_performance_impact]
    /\ calls' = calls + 1
    /\ ev' = [NoEvent EXCEPT !.op = "load_user_preferences"]
    /\ UNCHANGED <<now, platform, agent, lockVars, execVars, running, emergency_mode, decision_queue,
                   agent_thread, monitor, producers, consumers, caller, decisions>>

\* pause_optimization() (active FALSE) and resume_optimization() (active TRUE):
\* state.active is assigned and nothing else is
SetActive(active) ==
    /\ calls < MaxEvents
    /\ caller.pc = "idle"
    /\ state' = [state EXCEPT !.active = active]
    /\ calls' = calls + 1
    /\ ev' = [NoEvent EXCEPT !.op = IF active THEN "resume_optimization"
                                    ELSE "pause_optimization"]
    /\ UNCHANGED <<now, platform, agent, lockVars, execVars, running, config, emergency_mode,
                   decision_queue, agent_thread, monitor, producers, consumers,
                   caller, decisions>>

\* Time passes
ClockStep ==
    /\ now + ClockAdvance <= MaxTime
    /\ now' = now + ClockAdvance
    /\ ev' = [NoEvent EXCEPT !.op = "clock"]
    /\ UNCHANGED <<platform, agent, lockVars, execVars, ctlVars, calls>>

ProducerCollectStep ==
    \E p \in Threads : \E battery \in BatteryReadings : ProducerCollect(p, battery)

ProducerExitStep == \E p \in Threads : ProducerExit(p)

ProducerCallbackStep ==
    \E p \in Threads : \E outs \in ApplyOutcomes(EmergencyActions) :
        ProducerCallback(p, outs)

ConsumerExitStep == \E c \in Threads : ConsumerExit(c)

ConsumerGetStep == \E c \in Threads : ConsumerGet(c)

ConsumerDecideStepWith(c, filtered) ==
    \E outs \in ApplyOutcomes(filtered) : ConsumerDecide(c, filtered, outs)

ConsumerDecideStep ==
    \E c \in Threads : \E ml \in ClassifierAnswers :
        /\ consumers[c].pc = "decide"
        /\ ConsumerDecideStepWith(c, DecisionBatch(c, ml))

\* The outcomes the primitive behind the revert of action_id can have
RevertOutcomesOf(action_id) ==
    IF action_id \in ActiveIds(active_actions)
    THEN PossibleOutcomes(platform,
             OptimizerMap(ActiveGet(active_actions, action_id).action.action_type))
         \ {"raise"}
    ELSE {"ok"}

StopRevertActionStep ==
    /\ caller.pc = "stop_revert"
    /\ \E o \in RevertOutcomesOf(Head(caller.ids)) : StopRevertAction(o)

LoadUserPreferencesStep ==
    /\ calls < MaxEvents
    /\ \E preferences \in Preferences : LoadUserPreferences(preferences)

Next ==
    \/ Start
    \/ StopBegin
    \/ StopRevertAll
    \/ StopRevertActionStep
    \/ StopReturn
    \/ LoadUserPreferencesStep
    \/ ClockStep
    \/ ProducerCollectStep
    \/ ProducerExitStep
    \/ ProducerCallbackStep
    \/ ConsumerExitStep
    \/ ConsumerGetStep
    \/ ConsumerDecideStep

\* The controller on a platform whose primitives are simulated
InitSimulated == Init /\ platform = "other"

Spec == InitSimulated /\ [][Next]_vars

----------------------------------------------------------------------------
(* The life cycle of the controller: start, stop, pause and resume called   *)
(* by one caller while the loops run, with iterations that fail.  The       *)
(* platform's primitives succeed, the classifier gives one answer and every *)
(* snapshot reads a battery at the emergency threshold.                     *)

\* A decision cycle of consumer c: decide_optimization returns its proposal,
\* or raises and _make_optimization_decision logs and returns
LifeDecideStep ==
    \E c \in Threads : \E ml \in ClassifierAnswers :
        \E filtered \in {DecisionBatch(c, ml), <<>>} :
            ConsumerDecide(c, filtered, [i \in DOMAIN filtered |-> "ok"])

NextLife ==
    \/ calls < MaxCalls /\ Start
    \/ calls < MaxCalls /\ StopBegin
    \/ calls < MaxCalls /\ \E active \in BOOLEAN : SetActive(active)
    \/ calls < MaxCalls /\ \E p \in Threads :
                               ProducerCollect(p, EmergencyBatteryThreshold)
    \/ calls < MaxCalls /\ \E p \in Threads : ProducerFails(p)
    \/ StopRevertAll
    \/ StopRevertAction("ok")
    \/ StopReturn
    \/ ProducerExitStep
    \/ \E p \in Threads : ProducerCallback(p, [i \in DOMAIN EmergencyActions |-> "ok"])
    \/ ConsumerExitStep
    \/ ConsumerGetStep
    \/ LifeDecideStep

SpecLife == InitSimulated /\ [][NextLife]_vars

\* The scheduler goes on running a thread as long as some thread can take a
\* step (a loop that can finish its wait or its decision cycle, or the caller
\* inside stop()), and no producer stays inside a callback for ever
FairLife ==
    /\ SpecLife
    /\ WF_vars(\/ StopRevertAll
               \/ StopRevertAction("ok")
               \/ StopReturn
               \/ ProducerExitStep
               \/ ConsumerExitStep
               \/ ConsumerGetStep
               \/ LifeDecideStep)
    /\ []<>(\A p \in Threads : producers[p].pc # "notify")

----------------------------------------------------------------------------
(* The ingestion handler driven by one producer thread, tick after tick,    *)
(* with a caller that loads preferences between two ticks.                  *)

\* Bound on the number of ticks and preference loads of one behaviour.
MaxTicks == 4

\* One iteration of _monitor_loop with the handler as the only callback
Tick(battery, outs) ==
    /\ OnMetricsUpdate(CollectMetrics(monitor.collected + 1, battery), outs)
    /\ monitor' = [monitor EXCEPT !.collected = @ + 1]
    /\ calls' = calls + 1
    /\ UNCHANGED <<now, platform, agent, lockVars, running, config, agent_thread, producers,
                   consumers, caller, decisions>>

TickStep ==
    /\ calls < MaxTicks
    /\ \E battery \in BatteryReadings : \E outs \in ApplyOutcomes(EmergencyActions) :
           Tick(battery, outs)

TickPreferencesStep ==
    /\ calls < MaxTicks
    /\ \E preferences \in Preferences : LoadUserPreferences(preferences)

NextTick == TickStep \/ TickPreferencesStep

SpecTick == Init /\ [][NextTick]_vars

----------------------------------------------------------------------------
(* BatteryOptimizationAgent.decide_optimization called on snapshots of every *)
(* battery tier, load and activity, with every answer of the classifier.    *)

\* More than the 1 MB of traffic the away-mode rule asks for
HeavyTraffic == 2 * 1024 * 1024

DecideSnapshots ==
    { SystemMetrics(0, 0, battery, 10, cpu, 0, net, brightness, app_cpu) :
          battery \in {10, 25, 50}, cpu \in {5, 40, 80}, net \in {0, HeavyTraffic},
          brightness \in {45, 70}, app_cpu \in {0, 30} }

\* The classifier fails, or answers one of its four classes
DecideClassifierAnswers ==
    {[failed |-> TRUE, prediction |-> 0, confidence |-> 0]}
        \cup {[failed |-> FALSE, prediction |-> p, confidence |-> 90] : p \in 0 .. 3}

\* decide_optimization(metrics); context, ml_actions and rule_actions are
\* its locals.  Besides DecideSnapshots it is called on a bright screen with
\* the battery on either side of every threshold of analyze_context under a
\* heavy load (the target application idle or busy), and with the load (cpu,
\* or cpu and gpu) on either side of every threshold on a critical battery.
DecideStep ==
    /\ \E metrics \in DecideSnapshots
              \cup { SystemMetrics(0, 0, battery, 10, 45, 40, 0, 95, app_cpu) :
                         battery \in {8, 15, 16, 30, 31, 45, 60, 61},
                         app_cpu \in {0, 60} }
              \cup { SystemMetrics(0, 0, 8, 10, cpu, gpu, 0, 95, 0) :
                         cpu \in {5, 20, 21, 50, 51, 80, 81}, gpu \in {0, 40} } :
           \E ml \in DecideClassifierAnswers : \E hour \in {3, Hour} :
               LET context == AnalyzeContext(metrics, hour) IN
               ev' = [op |-> "decide", metrics |-> metrics, ml |-> ml,
                      context |-> context,
                      ml_actions |-> MLDecision(ml, metrics, context),
                      rule_actions |-> RuleBasedActions(metrics, context),
                      actions |-> DecideWith(ml, metrics, context)]
    /\ UNCHANGED <<now, platform, agent, lockVars, execVars, ctlVars, calls>>

SpecDecide == InitSimulated /\ [][DecideStep]_vars

----------------------------------------------------------------------------
(* _make_optimization_decision up to the mode filter, on every proposal of  *)
(* decide_optimization, with a caller that loads preferences in between.    *)

\* The preferences the caller loads: every mode of the configuration and one
\* it does not hold, with a tight and with the default performance-impact cap
FilterPreferences ==
    [optimization_mode : {"aggressive", "balanced", "conservative", "turbo"},
     max_performance_impact : {20, 70}]

\* actions = decide_optimization(metrics); _filter_actions_by_mode(actions)
FilterProposedStep ==
    /\ \E metrics \in DecideSnapshots : \E ml \in DecideClassifierAnswers :
           LET actions == DecideOptimization(metrics, Hour, ml) IN
           ev' = [op |-> "filter", actions |-> actions,
                  mode |-> state.optimization_mode,
                  max_performance_impact |-> config.max_performance_impact,
                  step |-> FilterStep(actions, state.optimization_mode,
                                      config.max_performance_impact)]
    /\ UNCHANGED <<now, platform, agent, lockVars, execVars, ctlVars, calls>>

FilterPreferencesStep ==
    /\ calls < MaxCalls
    /\ \E preferences \in FilterPreferences : LoadUserPreferences(preferences)

SpecFilter == Init /\ [][FilterProposedStep \/ FilterPreferencesStep]_vars

----------------------------------------------------------------------------
(* The executor called by several threads at once (the consumer's decision, *)
(* the producer's emergency bundle, the caller's stop() and status reads).  *)
(* A call is a sequence of steps; `with self.action_lock` is a step that    *)
(* waits until the lock is free and takes it, and the end of the block      *)
(* gives it back.  touches names the fields a step reads or writes.         *)

LockEvent(op, w, touches, results, observed) ==
    [op |-> op, thread |-> w, touches |-> touches, results |-> results,
     observed |-> observed]

\* A get that reads without waiting for the lock
LockGetUnlocked(w, call) ==
    /\ workers[w].pc = "idle"
    /\ calls < MaxCalls
    /\ workers' = [workers EXCEPT ![w] = [IdleWorker EXCEPT !.pc = "get", !.call = call]]
    /\ calls' = calls + 1
    /\ ev' = LockEvent("acquire", w, {}, <<>>, <<>>)
    /\ UNCHANGED <<now, platform, agent, action_lock, execVars, ctlVars>>

\* apply_actions(actions): results = []; with self.action_lock
LockApplyBegin(w, actions) ==
    /\ workers[w].pc = "idle"
    /\ calls < MaxCalls
    /\ action_lock = 0
    /\ action_lock' = w
    /\ workers' = [workers EXCEPT ![w] =
           [IdleWorker EXCEPT !.pc = "apply", !.call = "apply_actions",
                              !.actions = actions, !.i = 1]]
    /\ calls' = calls + 1
    /\ ev' = LockEvent("acquire", w, {}, <<>>, <<>>)
    /\ UNCHANGED <<now, platform, agent, execVars, ctlVars>>

\* apply_actions: one iteration of the for loop
LockApplyNext(w, o) ==
    /\ workers[w].pc = "apply"
    /\ workers[w].i <= Len(workers[w].actions)
    /\ LET action == workers[w].actions[workers[w].i]
           st == ApplyIterationWith([optimizers |-> optimizers,
                                     active_actions |-> active_actions,
                                     results |-> workers[w].results],
                                    action,
                                    ApplySingleAction(optimizers, action, now, o),
                                    now)
       IN /\ optimizers' = st.optimizers
          /\ active_actions' = st.active_actions
          /\ workers' = [workers EXCEPT ![w].results = st.results, ![w].i = @ + 1]
    /\ now' = now + 1
    /\ ev' = LockEvent("apply_iteration", w, {"active_actions"}, <<>>, <<>>)
    /\ UNCHANGED <<platform, agent, action_lock, action_history, ctlVars, calls>>

\* apply_actions: the history is extended and trimmed, the lock given back
LockApplyEnd(w) ==
    /\ workers[w].pc = "apply"
    /\ workers[w].i > Len(workers[w].actions)
    /\ action_history' = ExtendHistory(action_history, workers[w].results)
    /\ action_lock' = 0
    /\ workers' = [workers EXCEPT ![w] = IdleWorker]
    /\ ev' = LockEvent("apply_actions", w, {"action_history"}, workers[w].results, <<>>)
    /\ UNCHANGED <<now, platform, agent, optimizers, active_actions, ctlVars, calls>>

\* revert_all_actions: action_ids = list(self.active_actions.keys())
LockRevertAllKeys(w) ==
    /\ workers[w].pc = "idle"
    /\ calls < MaxCalls
    /\ workers' = [workers EXCEPT ![w] =
           [IdleWorker EXCEPT !.pc = "revert_all", !.call = "revert_all_actions",
                              !.action_ids = ActiveKeys(active_actions)]]
    /\ calls' = calls + 1
    /\ ev' = LockEvent("revert_all_keys", w, {"active_actions"}, <<>>, <<>>)
    /\ UNCHANGED <<now, platform, agent, action_lock, execVars, ctlVars>>

\* revert_action(action_id): with self.action_lock; called by a thread, or by
\* the loop of revert_all_actions for the next id of its list
LockRevertBegin(w, action_id) ==
    /\ action_lock = 0
    /\ \/ /\ workers[w].pc = "idle"
          /\ calls < MaxCalls
          /\ action_id \in ActiveIds(active_actions) \cup {MissingId}
          /\ workers' = [workers EXCEPT ![w] =
                 [IdleWorker EXCEPT !.pc = "revert", !.call = "revert_action",
                                    !.action_id = action_id]]
          /\ calls' = calls + 1
       \/ /\ workers[w].pc = "revert_all"
          /\ workers[w].action_ids # <<>>
          /\ action_id = Head(workers[w].action_ids)
          /\ workers' = [workers EXCEPT ![w].pc = "revert", ![w].action_id = action_id,
                                        ![w].action_ids = Tail(@)]
          /\ calls' = calls
    /\ action_lock' = w
    /\ ev' = LockEvent("acquire", w, {}, <<>>, <<>>)
    /\ UNCHANGED <<now, platform, agent, execVars, ctlVars>>

\* revert_action: the body of the with block, and the lock given back
LockRevertBody(w, o) ==
    /\ workers[w].pc = "revert"
    /\ LET r == RevertActionOp(optimizers, active_actions, workers[w].action_id, o)
       IN /\ optimizers' = r.optimizers
          /\ active_actions' = r.active_actions
          /\ workers' = [workers EXCEPT ![w] =
                 IF workers[w].call = "revert_all_actions"
                 THEN [@ EXCEPT !.pc = "revert_all", !.results = Append(@, r.result)]
                 ELSE IdleWorker]
          /\ ev' = LockEvent("revert_action", w, {"active_actions"}, <<r.result>>,
                             <<>>)
    /\ action_lock' = 0
    /\ UNCHANGED <<now, platform, agent, action_history, ctlVars, calls>>

\* revert_all_actions: the loop is over, return results
LockRevertAllEnd(w) ==
    /\ workers[w].pc = "revert_all"
    /\ workers[w].action_ids = <<>>
    /\ workers' = [workers EXCEPT ![w] = IdleWorker]
    /\ ev' = LockEvent("revert_all_actions", w, {}, workers[w].results, <<>>)
    /\ UNCHANGED <<now, platform, agent, action_lock, execVars, ctlVars, calls>>

\* get_active_actions() and get_action_history(): with self.action_lock
LockGetBegin(w, call) ==
    /\ workers[w].pc = "idle"
    /\ calls < MaxCalls
    /\ action_lock = 0
    /\ action_lock' = w
    /\ workers' = [workers EXCEPT ![w] = [IdleWorker EXCEPT !.pc = "get", !.call = call]]
    /\ calls' = calls + 1
    /\ ev' = LockEvent("acquire", w, {}, <<>>, <<>>)
    /\ UNCHANGED <<now, platform, agent, execVars, ctlVars>>

\* return self.active_actions.copy() / return self.action_history[-limit:]
LockGetBody(w) ==
    /\ workers[w].pc = "get"
    /\ ev' = IF workers[w].call = "get_active_actions"
             THEN LockEvent("get_active_actions", w, {"active_actions"}, <<>>,
                            active_actions)
             ELSE LockEvent("get_action_history", w, {"action_history"}, <<>>,
                            SubSeq(action_history, Max(1, Len(action_history) - 99),
                                   Len(action_history)))
    /\ action_lock' = 0
    /\ workers' = [workers EXCEPT ![w] = IdleWorker]
    /\ UNCHANGED <<now, platform, agent, execVars, ctlVars, calls>>

NextLock ==
    \E w \in Threads :
        \/ LockApplyBegin(w, <<TestBrightness, TestCpu>>)
        \/ \E o \in {"ok", "fail"} :
               /\ workers[w].pc = "apply"
               /\ workers[w].i <= Len(workers[w].actions)
               /\ o \in PossibleOutcomes(platform,
                      OptimizerMap(workers[w].actions[workers[w].i].action_type))
               /\ LockApplyNext(w, o)
        \/ LockApplyEnd(w)
        \/ LockRevertAllKeys(w)
        \/ \E action_id \in ActiveIds(active_actions) \cup {MissingId} :
               LockRevertBegin(w, action_id)
        \/ \E o \in {"ok", "fail"} :
               /\ workers[w].pc = "revert"
               /\ o \in RevertOutcomesOf(workers[w].action_id)
               /\ LockRevertBody(w, o)
        \/ LockRevertAllEnd(w)
        \/ \E call \in {"get_active_actions", "get_action_history"} :
               LockGetBegin(w, call)
        \/ LockGetBody(w)

SpecLock == InitSimulated /\ [][NextLock]_vars

----------------------------------------------------------------------------
(* The executor driven by one caller that applies batches of one or two     *)
(* actions and batches large enough to fill the history.                    *)

\* apply_actions on a batch of n actions of a kind the routing table does not
\* know: _apply_single_action refuses every action without touching a backend
\* and no result is a success, so that iteration i leaves the optimizers and
\* the active dict as they were and its result does not depend on the
\* iterations before it; the loop is written out per index.
BulkApply(n) ==
    LET results == [i \in 1 .. n |->
                       ResultOrError(ApplySingleAction(optimizers, UnroutableAction,
                                                       now + i - 1, "ok"),
                                     now + i - 1)]
    IN /\ calls < MaxCalls
       /\ ExecApplyWith([i \in 1 .. n |-> UnroutableAction],
              [optimizers |-> optimizers, active_actions |-> active_actions,
               action_history |-> ExtendHistory(action_history, results),
               results |-> results])
       /\ now' = now + n
       /\ calls' = calls + 1
       /\ UNCHANGED <<platform, agent, lockVars, ctlVars>>

\* apply_actions(batch), the clock advancing from one action to the next
HistoryApplyStep ==
    /\ calls < MaxCalls
    /\ \/ \E batch \in {<<TestBrightness>>, <<TestBrightness, TestCpu>>} :
              \E outs \in ApplyOutcomes(batch) : ExecApply(batch, outs, 1)
       \/ \E n \in {HistoryKeep, HistoryLimit + 1} : BulkApply(n)

SpecHistory == Init /\ [][HistoryApplyStep]_vars

----------------------------------------------------------------------------
(* The display backend: brightness_adjust applied and reverted from every   *)
(* brightness the optimizer can read when it is constructed: any percentage *)
(* on linux (_get_linux_brightness), the fallback where the platform gives  *)
(* no reading.                                                              *)

DisplayStep ==
    /\ calls < MaxCalls
    /\ \E o \in PossibleOutcomes(platform, "display") :
           \/ \E intensity \in {0, 30, 100} :
                  ExecApply(<<OptimizationAction("brightness_adjust", intensity,
                                                 "display", 10, 10, 80)>>, <<o>>, 1)
           \/ \E action_id \in ActiveIds(active_actions) : ExecRevert(action_id, o)

\* DisplayOptimizer.__init__: current_brightness = _get_current_brightness()
InitDisplay ==
    /\ InitController
    /\ InitAgent
    /\ now = DecisionInterval /\ calls = 0 /\ ev = NoEvent
    /\ active_actions = <<>> /\ action_history = <<>>
    /\ platform \in {"linux", "other"}
    /\ \E brightness \in IF platform = "linux" THEN 0 .. 100 ELSE {FallbackBrightness} :
           optimizers = [InitOptimizers EXCEPT !.display.current_brightness = brightness]

SpecDisplay == InitDisplay /\ [][DisplayStep]_vars

----------------------------------------------------------------------------
(* apply_actions on an executor some of whose optimizers disable_optimizer  *)
(* has switched off, on a platform whose primitives are simulated.          *)

RouteApplyStep ==
    /\ calls < MaxCalls
    /\ \E batch \in ExecBatches : ExecApply(batch, [i \in DOMAIN batch |-> "ok"], 1)

\* The executor after disable_optimizer(name) for the names of a set
InitRoute ==
    /\ InitController
    /\ InitAgent
    /\ now = DecisionInterval /\ calls = 0 /\ ev = NoEvent
    /\ active_actions = <<>> /\ action_history = <<>>
    /\ platform = "other"
    /\ \E off \in SUBSET OptimizerNames :
           optimizers = [name \in OptimizerNames |->
                            [InitOptimizers[name] EXCEPT !.enabled = name \notin off]]

SpecRoute == InitRoute /\ [][RouteApplyStep]_vars

----------------------------------------------------------------------------
(* The executor on a platform whose primitives are simulated and succeed,   *)
(* driven by one caller with actions of every kind the routing table knows: *)
(* the two of the usage example and the three the decision tiers propose    *)
(* (reasoning.py: background_limit of _performance_rules, network_limit of  *)
(* _away_mode_rules, app_throttle of the classifier tier).                  *)

SimActions ==
    { TestBrightness, TestCpu,
      OptimizationAction("background_limit", 50, "system", 8, 10, 70),
      OptimizationAction("network_limit", 60, "network", 15, 20, 80),
      OptimizationAction("app_throttle", 60, "target_app", 12, 50, 70) }

\* apply_actions of one action of each kind, or of one of them twice
SimApplyStep ==
    /\ calls < MaxCalls
    /\ \E a \in SimActions : \E batch \in {<<a>>, <<a, a>>} :
           ExecApply(batch, [i \in DOMAIN batch |-> "ok"], 1)

\* revert_all_actions() with every primitive succeeding
SimRevertAllStep ==
    /\ calls < MaxCalls
    /\ ExecRevertAll([i \in DOMAIN active_actions |-> "ok"])

NextSim == SimApplyStep \/ SimRevertAllStep

SpecSim == InitSimulated /\ [][NextSim]_vars

----------------------------------------------------------------------------
(* BatteryOptimizationAgent: retraining from feedback.  provide_feedback is *)
(* called by the thread of provide_user_feedback, _ml_decision by a thread  *)
(* inside decide_optimization; no lock is taken by either.  fit_transform   *)
(* and fit work on the live scaler and classifier objects.                  *)

LearnEvent(op, failed, raised, scaler, decision_model) ==
    [op |-> op, failed |-> failed, raised |-> raised, scaler |-> scaler,
     decision_model |-> decision_model]

\* _update_model: the tests that come before the fit
Retrains(a) ==
    /\ ~(a.experience_buffer.records < 50)
    /\ a.experience_buffer.with_actions > 20

\* provide_user_feedback -> provide_feedback: the outcome is recorded and,
\* with more than 10 outcomes, _update_model is entered: it returns at once,
\* or prepares the training data and goes on to the fit of the scaler
ProvideFeedback ==
    /\ calls < MaxCalls
    /\ agent.update.pc = "idle"
    /\ LET recorded == [agent EXCEPT !.action_outcomes = @ + 1] IN
       IF recorded.action_outcomes > 10 /\ Retrains(recorded)
       THEN /\ agent' = [recorded EXCEPT !.update =
                   [pc |-> "fit_scaler", generation |-> recorded.action_outcomes,
                    before |-> [scaler |-> agent.scaler,
                                decision_model |-> agent.decision_model]]]
            /\ ev' = LearnEvent("update_model", FALSE, FALSE, agent.scaler,
                                agent.decision_model)
       ELSE /\ agent' = recorded
            /\ ev' = LearnEvent("provide_feedback", FALSE, FALSE, agent.scaler,
                                agent.decision_model)
    /\ calls' = calls + 1
    /\ UNCHANGED <<now, platform, lockVars, execVars, ctlVars>>

\* What the except branch of _update_model leaves: the error is logged,
\* _update_model and provide_feedback return
UpdateFailed(a) == [a EXCEPT !.update = IdleUpdate]

\* _update_model: X_scaled = self.scaler.fit_transform(X); a fit that raises
\* is taken to leave the scaler as it was
FitScaler(o) ==
    /\ agent.update.pc = "fit_scaler"
    /\ IF o = "ok"
       THEN /\ agent' = [agent EXCEPT !.scaler = agent.update.generation,
                                      !.update.pc = "fit_model"]
            /\ ev' = LearnEvent("fit_scaler", FALSE, FALSE, agent.update.before.scaler,
                                agent.update.before.decision_model)
       ELSE /\ agent' = UpdateFailed(agent)
            /\ ev' = LearnEvent("provide_feedback", TRUE, FALSE,
                                agent.update.before.scaler,
                                agent.update.before.decision_model)
    /\ UNCHANGED <<now, platform, lockVars, execVars, ctlVars, calls>>

\* _update_model: self.decision_model.fit(X_scaled, y); a fit that raises is
\* taken to leave the classifier as it was
FitModel(o) ==
    /\ agent.update.pc = "fit_model"
    /\ IF o = "ok"
       THEN /\ agent' = [agent EXCEPT !.decision_model = agent.update.generation,
                                      !.update.pc = "save"]
            /\ ev' = LearnEvent("fit_model", FALSE, FALSE, agent.update.before.scaler,
                                agent.update.before.decision_model)
       ELSE /\ agent' = UpdateFailed(agent)
            /\ ev' = LearnEvent("provide_feedback", TRUE, FALSE,
                                agent.update.before.scaler,
                                agent.update.before.decision_model)
    /\ UNCHANGED <<now, platform, lockVars, execVars, ctlVars, calls>>

\* _update_model: self._save_model(), which logs an error of its own;
\* _update_model and provide_feedback return
SaveModel(o) ==
    /\ agent.update.pc = "save"
    /\ agent' = [agent EXCEPT !.update = IdleUpdate]
    /\ ev' = LearnEvent("provide_feedback", o # "ok", FALSE, agent.update.before.scaler,
                        agent.update.before.decision_model)
    /\ UNCHANGED <<now, platform, lockVars, execVars, ctlVars, calls>>

\* _ml_decision: features_scaled = self.scaler.transform(features)
MLTransform ==
    /\ calls < MaxCalls
    /\ agent.inference.pc = "idle"
    /\ agent' = [agent EXCEPT !.inference = [pc |-> "predict", scaler |-> agent.scaler]]
    /\ ev' = LearnEvent("transform", FALSE, FALSE, agent.scaler, NoneVal)
    /\ calls' = calls + 1
    /\ UNCHANGED <<now, platform, lockVars, execVars, ctlVars>>

\* _ml_decision: self.decision_model.predict(features_scaled), and the rest of
\* decide_optimization up to _record_decision; proposed says whether the
\* decision holds an action
MLPredict(proposed) ==
    /\ agent.inference.pc = "predict"
    /\ agent' = [agent EXCEPT
           !.inference = IdleInference,
           !.experience_buffer.records = @ + 1,
           !.experience_buffer.with_actions = @ + (IF proposed THEN 1 ELSE 0)]
    /\ ev' = LearnEvent("ml_decision", FALSE, FALSE, agent.inference.scaler,
                        agent.decision_model)
    /\ UNCHANGED <<now, platform, lockVars, execVars, ctlVars, calls>>

NextLearn ==
    \/ ProvideFeedback
    \/ \E o \in {"ok", "raise"} : FitScaler(o)
    \/ \E o \in {"ok", "raise"} : FitModel(o)
    \/ \E o \in {"ok", "raise"} : SaveModel(o)
    \/ MLTransform
    \/ \E proposed \in BOOLEAN : MLPredict(proposed)

\* An agent that has recorded 9 or 10 outcomes and 49 or 50 decisions, 20 or
\* 21 of them with actions, and has not retrained yet
InitLearn ==
    /\ InitExecutor /\ InitController
    /\ platform = "other"
    /\ \E outcomes \in {9, 10} : \E records \in {49, 50} : \E with_actions \in {20, 21} :
           agent = [NewAgent EXCEPT
                       !.action_outcomes = outcomes,
                       !.experience_buffer = [records |-> records,
                                              with_actions |-> with_actions]]

SpecLearn == InitLearn /\ [][NextLearn]_vars

----------------------------------------------------------------------------
(* Properties of the executor (SpecExec) *)

SuccessIndexes(results) == {i \in DOMAIN results : results[i].success}
SuccessIds(results) == {results[i].action_id : i \in SuccessIndexes(results)}

IdPrefix(name) == IF name = "application" THEN "app" ELSE name

\* result is what apply_actions may return for action: the routed backend's
\* result for that kind, or a failure that names no backend.
ResultIsFor(action, result) ==
    LET name == OptimizerMap(action.action_type)
        prefix == result.action_id[1]
    IN IF name = "none"
       THEN prefix = "unknown" /\ ~result.success
       ELSE /\ prefix \in {IdPrefix(name), "error", "disabled"}
            /\ prefix = IdPrefix(name) => result.action_id[2] = action.action_type
            /\ prefix # IdPrefix(name) => ~result.success

\* C2: revert_action(id) for an id in the active-action map calls the routed
\* backend's revert and removes that record if and only if the backend reports
\* success; when the backend reports failure the map is left unchanged.
C2_RevertRemovesIffSuccess ==
    [][(ev'.op = "revert_action" /\ ev'.id \in ActiveIds(active_actions)) =>
          /\ ev'.invoked = <<TRUE>>
          /\ (ev'.id \notin ActiveIds(active_actions')) <=> ev'.results[1].success
          /\ ev'.results[1].success =>
                 active_actions' = SelectSeq(active_actions, LAMBDA e : e.id # ev'.id)
          /\ ~ev'.results[1].success => active_actions' = active_actions]_vars

\* C2 witness: a revert of an active id that the backend failed; the record is still there.
C2_Witness ==
    /\ ev.op = "revert_action"
    /\ ev.invoked = <<TRUE>>
    /\ ~ev.results[1].success
    /\ ev.id \in ActiveIds(active_actions)

\* C3: with N ids in the active-action map and no concurrent caller,
\* revert_all_actions() calls the backend's revert for every one of them, in the
\* map's order, whatever the earlier reverts returned, and returns exactly N
\* results; if all N are successes the map is empty afterwards.
C3_RevertAllAttemptsEvery ==
    [][ev'.op = "revert_all_actions" =>
          /\ Len(ev'.results) = Len(active_actions)
          /\ \A i \in DOMAIN active_actions :
                 /\ ev'.results[i].action_id = active_actions[i].id
                 /\ ev'.invoked[i]
          /\ (\A i \in DOMAIN ev'.results : ev'.results[i].success)
                 => active_actions' = <<>>]_vars

\* C3 witness: a revert_all_actions() over two active actions whose first revert
\* failed and whose second revert was still made and succeeded.
C3_Witness ==
    /\ ev.op = "revert_all_actions"
    /\ Len(ev.results) = 2
    /\ ~ev.results[1].success
    /\ ev.invoked[2] /\ ev.results[2].success

\* C4: apply_actions(batch) returns exactly one result per input action, in
\* input order, also past actions that fail or raise; the active-action map gains
\* a record keyed by a result's id exactly for the successful results (holding
\* that action and result), every other record is untouched, and all the
\* results are appended to the history in order.
C4_ApplyOnePerAction ==
    [][ev'.op = "apply_actions" =>
          /\ Len(ev'.results) = Len(ev'.actions)
          /\ \A i \in DOMAIN ev'.actions : ResultIsFor(ev'.actions[i], ev'.results[i])
          /\ \A i, j \in DOMAIN ev'.results :
                 i < j => ev'.results[i].action_id[3] <= ev'.results[j].action_id[3]
          /\ ActiveIds(active_actions') =
                 ActiveIds(active_actions) \cup SuccessIds(ev'.results)
          /\ \A i \in SuccessIndexes(ev'.results) :
                 (\A j \in SuccessIndexes(ev'.results) :
                      j > i => ev'.results[j].action_id # ev'.results[i].action_id)
                 => \E k \in DOMAIN active_actions' :
                        /\ active_actions'[k].id = ev'.results[i].action_id
                        /\ active_actions'[k].action = ev'.actions[i]
                        /\ active_actions'[k].result = ev'.results[i]
          /\ \A k \in DOMAIN active_actions :
                 active_actions[k].id \notin SuccessIds(ev'.results)
                 => \E m \in DOMAIN active_actions' : active_actions'[m] = active_actions[k]
          /\ Len(action_history) + Len(ev'.results) <= HistoryLimit
                 => action_history' = action_history \o ev'.results]_vars

\* C4 witness: a batch whose first action was refused, whose second raised and
\* whose third was then applied and recorded.
C4_Witness ==
    /\ ev.op = "apply_actions"
    /\ Len(ev.results) = 3
    /\ ev.results[1].action_id[1] = "unknown"
    /\ ev.results[2].action_id[1] = "error"
    /\ ev.results[3].success
    /\ ev.results[3].action_id \in ActiveIds(active_actions)

\* C5: every successful apply produces an id that is not yet in the
\* active-action map, so the map grows by exactly one record per successful
\* apply of a batch.
C5_MapGrowsByOnePerSuccess ==
    [][ev'.op = "apply_actions" =>
          Len(active_actions') =
              Len(active_actions) + Cardinality(SuccessIndexes(ev'.results))]_vars

----------------------------------------------------------------------------
(* Properties of the controller's threads (Spec) *)

AllSucceeded(results) == \A i \in DOMAIN results : results[i].success

\* C1: once stop() has returned on a Running controller with every backend
\* revert succeeding, the active-action map is empty; stated for the case in
\* which stop() had actions to revert and both of its joins saw their thread
\* ended, so that no thread of the stopped period is left running.
C1_StopLeavesNothingActive ==
    (/\ ev.op = "stop"
     /\ ev.invoked = <<TRUE, TRUE>>
     /\ ev.results # <<>>
     /\ AllSucceeded(ev.results))
        => active_actions = <<>>

\* C6: within one Running period, a decision cycle begins only when at least
\* decision_interval has passed since every earlier decision cycle of that
\* period began.
C6_DecisionCyclesSeparated ==
    [][(ev'.op = "dequeue" /\ running) =>
          \A i \in DOMAIN decisions :
              (decisions[i].running /\ decisions[i].period = monitor.callbacks)
                  => now - decisions[i].time >= DecisionInterval]_vars

\* C7: the snapshot a decision cycle takes from the queue is the most recent
\* snapshot enqueued at that moment: no snapshot in the queue is newer.
C7_DecidesOnFreshestSnapshot ==
    [][ev'.op = "dequeue" =>
          \A i \in DOMAIN decision_queue :
              decision_queue[i].seq <= ev'.metrics.seq]_vars

----------------------------------------------------------------------------
(* Properties of the ingestion handler (SpecTick) *)

AtOrBelowThreshold(metrics) == metrics.battery_percent <= EmergencyBatteryThreshold

\* C8: a tick whose snapshot has battery at or below the emergency threshold
\* while the flag is false sets the flag and hands the bundle (brightness_adjust
\* at 0.9, cpu_throttle at 0.8) to apply_actions in that same tick: the history
\* gains that batch's two results; a tick that finds the flag already true
\* with such a snapshot applies nothing and leaves the executor as it is.
C8_EmergencyEntryOnce ==
    [][(ev'.op = "metrics_update" /\ AtOrBelowThreshold(ev'.metrics)) =>
          /\ emergency_mode'
          /\ ~emergency_mode =>
                 /\ ev'.applied
                 /\ Len(ev'.actions) = 2
                 /\ ev'.actions[1].action_type = "brightness_adjust"
                 /\ ev'.actions[1].intensity = 90
                 /\ ev'.actions[2].action_type = "cpu_throttle"
                 /\ ev'.actions[2].intensity = 80
                 /\ Len(ev'.results) = 2
                 /\ action_history' = action_history \o ev'.results
          /\ emergency_mode =>
                 /\ ~ev'.applied
                 /\ UNCHANGED execVars]_vars

\* C8 witness: a tick at or below the threshold that found the flag set by an
\* earlier tick, whose bundle is in the history, and applied nothing.
C8_Witness ==
    /\ ev.op = "metrics_update"
    /\ AtOrBelowThreshold(ev.metrics)
    /\ ev.emergency
    /\ ~ev.applied
    /\ Len(action_history) = 2

\* C9: the emergency bundle is not passed through the mode filter: whenever the
\* handler enters the emergency, in whatever mode and with whatever cap on the
\* performance impact, both emergency actions reach apply_actions, which
\* returns a result of the routed backend for each.
C9_EmergencyBypassesModeFilter ==
    [][(ev'.op = "metrics_update" /\ AtOrBelowThreshold(ev'.metrics)
            /\ ~emergency_mode) =>
          /\ ev'.actions = EmergencyActions
          /\ Len(ev'.results) = Len(EmergencyActions)
          /\ \A i \in DOMAIN EmergencyActions :
                 /\ ResultIsFor(EmergencyActions[i], ev'.results[i])
                 /\ ev'.results[i].action_id[2] = EmergencyActions[i].action_type]_vars

\* C9 witness: an emergency entry in conservative mode (max_intensity 0.3) with
\* the cap on the performance impact at 0.2; both actions were applied.
C9_Witness ==
    /\ ev.op = "metrics_update"
    /\ ev.applied
    /\ state.optimization_mode = "conservative"
    /\ OptimizationModes[state.optimization_mode].max_intensity < 80
    /\ config.max_performance_impact < 30
    /\ Len(ev.results) = 2
    /\ AllSucceeded(ev.results)
    /\ Len(active_actions) = 2

\* C10: a tick whose snapshot has battery above the emergency threshold while
\* the flag is true clears the flag and does nothing to actions: apply_actions
\* is not called and the active-action map, the history and the backends'
\* states are the same after the tick as before it.
C10_EmergencyExitClearsFlagOnly ==
    [][(ev'.op = "metrics_update" /\ ~AtOrBelowThreshold(ev'.metrics)
            /\ emergency_mode) =>
          /\ ~emergency_mode'
          /\ ~ev'.applied
          /\ active_actions' = active_actions
          /\ action_history' = action_history
          /\ optimizers' = optimizers]_vars

\* C10 witness: a tick above the threshold that found the flag set and cleared
\* it, with the actions of the emergency entry still active.
C10_Witness ==
    /\ ev.op = "metrics_update"
    /\ ~AtOrBelowThreshold(ev.metrics)
    /\ ev.emergency
    /\ ~emergency_mode
    /\ active_actions # <<>>

----------------------------------------------------------------------------
(* Properties of decide_optimization (SpecDecide) *)

KeysOf(actions) == {ActionKey(actions[i]) : i \in DOMAIN actions}
WithKey(actions, key) == {i \in DOMAIN actions : ActionKey(actions[i]) = key}
ActionOfKey(actions, key) == actions[CHOOSE i \in WithKey(actions, key) : TRUE]

\* The action of lowest intensity among those of a key, the first of them
\* when several have that intensity.
LowestOfKey(actions, key) ==
    actions[CHOOSE i \in WithKey(actions, key) :
                \A j \in WithKey(actions, key) :
                    \/ actions[j].intensity > actions[i].intensity
                    \/ actions[j].intensity = actions[i].intensity /\ j >= i]

OnePerKey(actions) ==
    \A i, j \in DOMAIN actions :
        ActionKey(actions[i]) = ActionKey(actions[j]) => i = j

\* The classifier action of a key stands unless a rule action of that key has
\* a strictly lower intensity, and then a rule action stands for the key.
ClassifierKeptUnlessLower(ml_actions, rule_actions, merged) ==
    \A i \in DOMAIN ml_actions :
        LET key == ActionKey(ml_actions[i]) IN
        IF \E j \in WithKey(rule_actions, key) :
               rule_actions[j].intensity < ml_actions[i].intensity
        THEN ActionOfKey(merged, key) = LowestOfKey(rule_actions, key)
        ELSE ActionOfKey(merged, key) = ml_actions[i]

\* C11: the merged output of decide() holds at most one action per (kind,
\* target domain) key and an action for every key proposed; a classifier action
\* is kept unless a rule action with the same key has a strictly lower
\* intensity, in which case the rule action replaces it; for a key no
\* classifier action claimed, the rule action of lowest intensity (the first
\* of them on a tie) is the one in the output.
C11_MergeKeepsLowestPerKey ==
    ev.op = "decide" =>
        /\ OnePerKey(ev.actions)
        /\ KeysOf(ev.actions) = KeysOf(ev.ml_actions) \cup KeysOf(ev.rule_actions)
        /\ ClassifierKeptUnlessLower(ev.ml_actions, ev.rule_actions, ev.actions)
        /\ \A key \in KeysOf(ev.rule_actions) \ KeysOf(ev.ml_actions) :
               ActionOfKey(ev.actions, key) = LowestOfKey(ev.rule_actions, key)

\* A classifier action (brightness_adjust, display) of intensity 0.5 met a rule
\* action of the same key with a lower intensity, and the rule action is the one
\* merged; another key came from the rules alone.
C11_Witness ==
    /\ ev.op = "decide"
    /\ \E i \in DOMAIN ev.ml_actions : \E j \in DOMAIN ev.rule_actions :
           /\ ActionKey(ev.ml_actions[i]) = <<"brightness_adjust", "display">>
           /\ ActionKey(ev.rule_actions[j]) = ActionKey(ev.ml_actions[i])
           /\ ev.ml_actions[i].intensity = 50
           /\ ev.rule_actions[j].intensity < 50
           /\ \E k \in DOMAIN ev.actions : ev.actions[k] = ev.rule_actions[j]
    /\ KeysOf(ev.rule_actions) \ KeysOf(ev.ml_actions) # {}

\* C11 as stated: one action per key, the classifier action kept unless a rule
\* action of its key is strictly lower, and every rule action for a key no
\* classifier action claimed is in the output as it is.
C11_EveryUnclaimedRuleActionAdded ==
    ev.op = "decide" =>
        /\ OnePerKey(ev.actions)
        /\ ClassifierKeptUnlessLower(ev.ml_actions, ev.rule_actions, ev.actions)
        /\ \A j \in DOMAIN ev.rule_actions :
               ActionKey(ev.rule_actions[j]) \notin KeysOf(ev.ml_actions)
                   => \E k \in DOMAIN ev.actions : ev.actions[k] = ev.rule_actions[j]

----------------------------------------------------------------------------
(* Properties of the mode filter (SpecFilter) *)

\* The three tests of the mode filter, on the thresholds of a configured mode
Survives(action, mode, max_performance_impact) ==
    /\ action.intensity <= OptimizationModes[mode].max_intensity
    /\ action.confidence >= OptimizationModes[mode].min_confidence
    /\ action.performance_impact <= max_performance_impact

\* filtered holds exactly the actions of the input that pass, each once, in
\* the order of the input
ExactlySurvivors(actions, filtered, mode, max_performance_impact) ==
    LET passing == {i \in DOMAIN actions :
                       Survives(actions[i], mode, max_performance_impact)}
    IN /\ Len(filtered) = Cardinality(passing)
       /\ \A i \in passing : \E k \in DOMAIN filtered : filtered[k] = actions[i]
       /\ \A k \in DOMAIN filtered : \E i \in passing : filtered[k] = actions[i]
       /\ \A k, l \in DOMAIN filtered :
              k < l => \E i, j \in passing :
                          i < j /\ filtered[k] = actions[i] /\ filtered[l] = actions[j]

\* C12: the mode filter, called in a mode of the configuration, returns exactly
\* the input actions, in input order, with intensity <= the mode's
\* max_intensity, confidence >= the mode's min_confidence and performance
\* impact <= the global max_performance_impact, and the call changes nothing
\* of the controller's or the executor's state.
C12_FilterKeepsExactlySurvivors ==
    [][(ev'.op = "filter" /\ ev'.step.filter_called /\ ~ev'.step.raised) =>
          /\ ExactlySurvivors(ev'.actions, ev'.step.filtered,
                              state.optimization_mode, config.max_performance_impact)
          /\ UNCHANGED <<execVars, ctlVars>>]_vars

\* The filter returned part of a proposal: it dropped an action for its
\* performance impact alone and kept another.
C12_Witness ==
    /\ ev.op = "filter"
    /\ ev.step.filter_called /\ ~ev.step.raised
    /\ ev.step.filtered # <<>>
    /\ \E i \in DOMAIN ev.actions :
           /\ ev.actions[i].intensity <= OptimizationModes[ev.mode].max_intensity
           /\ ev.actions[i].confidence >= OptimizationModes[ev.mode].min_confidence
           /\ ev.actions[i].performance_impact > ev.max_performance_impact
           /\ \A k \in DOMAIN ev.step.filtered : ev.step.filtered[k] # ev.actions[i]

----------------------------------------------------------------------------
(* Properties of the executor under concurrent callers (SpecLock) *)

\* A batch is under way in thread v: apply_actions has entered its with block
\* and has not yet extended the history
BatchUnderWay(v) == workers[v].pc = "apply"

\* C13: a call of get_active_actions() or get_action_history() that runs
\* concurrently with apply_actions(batch) takes its copy only when no batch of
\* another thread is under way, so that it sees none or all of a batch's
\* records and results.
C13_ReadersSeeWholeBatches ==
    [][ev'.op \in {"get_active_actions", "get_action_history"} =>
          \A v \in Threads : ~BatchUnderWay(v)]_vars

\* A reader has taken its copy of the map after a batch of two actions was
\* applied whole: both records are in the copy and both results in the history.
C13_Witness ==
    /\ ev.op = "get_active_actions"
    /\ Len(ev.observed) = 2
    /\ Len(action_history) = 2

\* C14: every step of apply_actions, revert_action, revert_all_actions,
\* get_active_actions and get_action_history that reads or writes the
\* active-action map or the history is taken by the thread that holds the
\* executor's lock.
C14_AccessesHoldTheLock ==
    [][ev'.touches # {} => action_lock = ev'.thread]_vars

----------------------------------------------------------------------------
(* Properties of the controller's threads (Spec), continued *)

\* No consumer thread is alive
ConsumerStopped == \A c \in Threads : consumers[c].pc = "dead"

\* C15: every step that changes a field of the controller's state (active,
\* battery_level, optimization_mode, actions_applied, total_savings,
\* last_decision_time) is a step of a consumer thread, or a step of the caller
\* thread taken while no consumer thread is alive; start() and stop(), which
\* create and end the consumer, are left aside.
C15_StateWrittenByConsumerOrWhileStopped ==
    [][state' # state =>
          \/ ev'.op = "decision"
          \/ ev'.op \in {"start", "stop_begin"}
          \/ ev'.op = "load_user_preferences" /\ ConsumerStopped]_vars

----------------------------------------------------------------------------
(* Properties of the history (SpecHistory) *)

\* C16: whenever the executor's lock is free, the history holds at most 1000
\* results, whatever the sizes of the batches applied.
C16_HistoryAtMostLimit ==
    action_lock = 0 => Len(action_history) <= HistoryLimit

\* The history holds exactly 1000 results, and a batch of more than 1000
\* actions has been applied.
C16_Witness ==
    /\ Len(action_history) = HistoryLimit
    /\ calls > 1

\* C17: when an apply_actions call brings the number of history entries above
\* 1000, the history afterwards is the last 500 of the entries it held before
\* followed by the call's results, in that order.
C17_TrimKeepsMostRecent ==
    [][(ev'.op = "apply_actions"
        /\ Len(action_history) + Len(ev'.results) > HistoryLimit) =>
          LET appended == action_history \o ev'.results IN
          /\ Len(action_history') = HistoryKeep
          /\ \A k \in 1 .. HistoryKeep :
                 action_history'[k] = appended[Len(appended) - HistoryKeep + k]]_vars

\* A call with one action has brought a history of 1000 entries to 1001: the
\* history now holds 500 entries, the last of them the call's result.
C17_Witness ==
    /\ ev.op = "apply_actions"
    /\ Len(ev.results) = 1
    /\ Len(action_history) = HistoryKeep
    /\ action_history[HistoryKeep] = ev.results[1]

\* C18: whenever the executor's lock is free, every id in the active-action
\* map has its successful apply result in the history.
C18_ActiveIdsHaveHistory ==
    action_lock = 0 =>
        \A i \in DOMAIN active_actions :
            \E k \in DOMAIN action_history :
                /\ action_history[k].success
                /\ action_history[k].action_id = active_actions[i].id

----------------------------------------------------------------------------
(* Properties of the executor (SpecExec), continued *)

\* C19: revert_action(id) for an id that is not in the active-action map
\* returns a failure result for that id, calls no backend and leaves the
\* active-action map, the history and every backend's state as they were; so
\* does a second revert_action of an id that was reverted successfully.
C19_RevertOfMissingIdIsNoOp ==
    [][(ev'.op = "revert_action" /\ ev'.id \notin ActiveIds(active_actions)) =>
          /\ ev'.results[1].action_id = ev'.id
          /\ ~ev'.results[1].success
          /\ ev'.invoked = <<FALSE>>
          /\ UNCHANGED execVars]_vars

\* revert_action has just failed without calling a backend for an id that was
\* applied successfully and reverted before.
C19_Witness ==
    /\ ev.op = "revert_action"
    /\ ev.invoked = <<FALSE>>
    /\ ~ev.results[1].success
    /\ \E k \in DOMAIN action_history :
           action_history[k].action_id = ev.id /\ action_history[k].success
    /\ ev.id \notin ActiveIds(active_actions)

----------------------------------------------------------------------------
(* Properties of the controller's threads (Spec), continued *)

\* C20: the decision queue is bounded: under every interleaving of producer
\* ticks and consumer steps the number of queued snapshots stays within a
\* fixed capacity, here any capacity smaller than the number of snapshots the
\* producers can collect within the steps explored.
C20_QueueWithinCapacity == Len(decision_queue) < MaxEvents - 2

----------------------------------------------------------------------------
(* Properties of the controller's life cycle (SpecLife, FairLife, Spec) *)

\* The loops that are alive
LiveProducers == {p \in Threads : producers[p].pc # "dead"}
LiveConsumers == {c \in Threads : consumers[c].pc # "dead"}

\* C21: after stop() is called, and unless start() follows, the consumer loop
\* sees the cleared flag and exits, the producer loop exits and stop() returns.
C21_StopEndsTheLoops ==
    ~running ~> (running \/ (/\ LiveProducers = {}
                             /\ LiveConsumers = {}
                             /\ caller.pc = "idle"))

\* stop() has just returned, both joins having found their loop ended, after
\* the producer had collected a snapshot.
C21_Witness ==
    /\ ev.op = "stop"
    /\ ev.invoked = <<TRUE, TRUE>>
    /\ ~running
    /\ monitor.collected > 0
    /\ LiveProducers = {}
    /\ LiveConsumers = {}
    /\ caller.pc = "idle"

\* C22: start() on a running controller and stop() on a stopped one change
\* nothing (no further loop, no further subscription, no revert), and start()
\* on a stopped controller leaves exactly one producer loop and one consumer
\* loop alive.
C22_TwoStateMachine ==
    [][/\ ev'.op = "start_ignored" =>
              UNCHANGED <<running, state, monitor, producers, consumers, agent_thread>>
       /\ ev'.op = "stop_ignored" =>
              UNCHANGED <<running, state, monitor, producers, consumers, caller, execVars>>
       /\ ev'.op = "start" =>
              /\ Cardinality(LiveProducers') = 1
              /\ Cardinality(LiveConsumers') = 1]_vars

\* C23: between pause_optimization() and the next resume_optimization() the
\* consumer of a running controller starts no decision cycle for a snapshot it
\* takes from the queue.
C23_NoDecisionWhilePaused ==
    [][(running /\ ~state.active) => ev'.op # "dequeue"]_vars

\* C26: while the controller stays running no producer loop and no consumer
\* loop ends, whatever fails inside an iteration (collect_metrics, a callback,
\* the decision engine or the mode filter).
C26_LoopsSurviveFailures ==
    [][(running /\ running') =>
          /\ LiveProducers \subseteq LiveProducers'
          /\ LiveConsumers \subseteq LiveConsumers']_vars

\* A callback has just failed on a snapshot the producer had collected, and
\* the producer is back at its loop test in a running controller.
C26_Witness ==
    /\ ev.op = "callback_failed"
    /\ running
    /\ monitor.collected > 0
    /\ producers[ev.thread].pc = "loop"

----------------------------------------------------------------------------
(* Properties of the display backend (SpecDisplay) and of routing (SpecRoute) *)

\* C24: a successful apply of brightness_adjust followed by a successful
\* revert of that action id restores exactly the brightness the apply started
\* from, for every starting brightness in 0..100 and every intensity.
C24_RevertRestoresBrightness ==
    (/\ ev.op = "revert_action"
     /\ ev.results[1].success
     /\ action_history # <<>>
     /\ action_history[Len(action_history)].action_id = ev.id
     /\ action_history[Len(action_history)].success)
    => optimizers.display.current_brightness
           = action_history[Len(action_history)].previous_value

\* Action i of the batch is refused: its kind is not in the routing table, or
\* the optimizer it is routed to is disabled
Refused(action) ==
    \/ OptimizerMap(action.action_type) = "none"
    \/ ~optimizers[OptimizerMap(action.action_type)].enabled

\* C25: apply_actions gives a failure result to an action whose kind is not in
\* the routing table or whose optimizer is disabled, calls no backend for it
\* and adds no active record for it, and still hands every other action of the
\* batch to its backend.
C25_RefusedActionsFailAlone ==
    [][ev'.op = "apply_actions" =>
          /\ Len(ev'.results) = Len(ev'.actions)
          /\ \A i \in DOMAIN ev'.actions :
                 IF Refused(ev'.actions[i])
                 THEN /\ ~ev'.results[i].success
                      /\ ev'.results[i].action_id[1] \in {"unknown", "disabled"}
                      /\ ev'.results[i].action_id \notin ActiveIds(active_actions')
                 ELSE ev'.results[i].action_id[1]
                          \in {IdPrefix(OptimizerMap(ev'.actions[i].action_type)), "error"}
          /\ \A name \in OptimizerNames :
                 ~optimizers[name].enabled => optimizers'[name] = optimizers[name]]_vars

\* The display optimizer is disabled: the brightness action of a batch has
\* just been refused and the cpu action after it was applied and recorded.
C25_Witness ==
    /\ ev.op = "apply_actions"
    /\ ev.actions = <<TestBrightness, TestCpu>>
    /\ ~optimizers.display.enabled
    /\ ev.results[1].action_id[1] = "disabled"
    /\ ev.results[2].success
    /\ ev.results[2].action_id \in ActiveIds(active_actions)

----------------------------------------------------------------------------
(* Properties of decide_optimization (SpecDecide), continued *)

\* C27: for a snapshot of the critical battery tier with brightness above 20
\* and cpu above 30 (battery 8, cpu 80, brightness 95 among them), decide()
\* returns at least two actions, a brightness_adjust and a cpu_throttle of
\* intensity at least 0.7 among them, whatever class the classifier answers.
C27_CriticalScenarioIsStrong ==
    (/\ ev.op = "decide"
     /\ ev.metrics.battery_percent <= 15
     /\ ev.metrics.screen_brightness > 20
     /\ ev.metrics.cpu_percent > 30)
    => /\ Len(ev.actions) >= 2
       /\ \E i \in DOMAIN ev.actions :
              ev.actions[i].action_type = "brightness_adjust" /\ ev.actions[i].intensity >= 70
       /\ \E i \in DOMAIN ev.actions :
              ev.actions[i].action_type = "cpu_throttle" /\ ev.actions[i].intensity >= 70

\* C28: the context's battery tier is critical up to 15 percent, low up to 30,
\* medium up to 60 and high above; its performance demand, from cpu + gpu, is
\* heavy above 80, moderate above 50, light above 20 and idle otherwise; the
\* same snapshot and hour always give the same context.
C28_ContextTiers ==
    ev.op = "decide" =>
        /\ ev.context.battery_level =
               (CASE ev.metrics.battery_percent <= 15 -> "critical"
                  [] ev.metrics.battery_percent \in 16 .. 30 -> "low"
                  [] ev.metrics.battery_percent \in 31 .. 60 -> "medium"
                  [] OTHER -> "high")
        /\ ev.context.performance_demand =
               (CASE ev.metrics.cpu_percent + ev.metrics.gpu_percent > 80 -> "heavy"
                  [] ev.metrics.cpu_percent + ev.metrics.gpu_percent \in 51 .. 80 -> "moderate"
                  [] ev.metrics.cpu_percent + ev.metrics.gpu_percent \in 21 .. 50 -> "light"
                  [] OTHER -> "idle")
        /\ \A hour \in {3, Hour} :
               LET context == AnalyzeContext(ev.metrics, hour) IN
               /\ context.battery_level = ev.context.battery_level
               /\ context.performance_demand = ev.context.performance_demand

\* A snapshot with battery 45 and cpu + gpu = 85 was analysed as tier medium
\* and demand heavy.
C28_Witness ==
    /\ ev.op = "decide"
    /\ ev.metrics.battery_percent = 45
    /\ ev.metrics.cpu_percent + ev.metrics.gpu_percent = 85
    /\ ev.context.battery_level = "medium"
    /\ ev.context.performance_demand = "heavy"

\* C29: whenever the context has performance demand heavy and battery tier low
\* or critical, the rule tier's output contains a background_limit action.
C29_HeavyDemandLimitsBackground ==
    (/\ ev.op = "decide"
     /\ ev.context.performance_demand = "heavy"
     /\ ev.context.battery_level \in {"low", "critical"})
    => \E i \in DOMAIN ev.rule_actions :
           ev.rule_actions[i].action_type = "background_limit"

\* C30: when the classifier fails, it contributes no actions, the rule tier
\* runs, and decide() returns the merge of the rule tier's actions alone: one
\* action per key the rules proposed, the one of lowest intensity, the keys in
\* the order the rules first proposed them.
C30_ClassifierFailureLeavesRules ==
    (ev.op = "decide" /\ ev.ml.failed) =>
        /\ ev.ml_actions = <<>>
        /\ ev.rule_actions = RuleBasedActions(ev.metrics, ev.context)
        /\ OnePerKey(ev.actions)
        /\ KeysOf(ev.actions) = KeysOf(ev.rule_actions)
        /\ \A key \in KeysOf(ev.rule_actions) :
               ActionOfKey(ev.actions, key) = LowestOfKey(ev.rule_actions, key)
        /\ \A i, j \in DOMAIN ev.actions :
               i < j => \E m \in WithKey(ev.rule_actions, ActionKey(ev.actions[i])) :
                            \A n \in WithKey(ev.rule_actions, ActionKey(ev.actions[j])) : m < n

\* The classifier failed on a snapshot for which the rules proposed two
\* actions of one key, and decide() returned the lower of the two.
C30_Witness ==
    /\ ev.op = "decide"
    /\ ev.ml.failed
    /\ Len(ev.actions) >= 2
    /\ Len(ev.rule_actions) > Len(ev.actions)

\* C33: in every state of the controller, from construction onward, the
\* state's optimization_mode is a key of the configured optimization_modes,
\* so that the mode filter of a decision cycle never raises.
C33_ModeIsConfigured ==
    state.optimization_mode \in DOMAIN OptimizationModes

\* C34: whatever sequence of start() and stop() is made, at most one
\* _agent_loop thread is alive at any time.
C34_AtMostOneConsumerLoop ==
    Cardinality(LiveConsumers) <= 1

\* C35: while the controller is running, one handler is registered with the
\* monitor, and a producer thread that has collected a snapshot has exactly
\* one call of the handler to make for it.
C35_OneHandlerCallPerTick ==
    /\ running => monitor.callbacks = 1
    /\ \A p \in Threads : producers[p].pc = "notify" => producers[p].next = 1

\* C40: when every active action has been reverted (by stop() or by
\* emergency_revert()) and the battery is still at or below the emergency
\* threshold, the next handler call of a running controller applies the
\* emergency bundle again: the emergency flag does not stay set across the
\* revert.
C40_EmergencyReappliedAfterRevert ==
    [][(/\ ev'.op = "metrics_update"
        /\ ev'.metrics.battery_percent <= EmergencyBatteryThreshold
        /\ running
        /\ active_actions = <<>>
        /\ \E i \in DOMAIN action_history : action_history[i].success)
       => ev'.applied]_vars

\* The successful brightness applies of the history, by index
DisplaySuccesses ==
    {i \in DOMAIN action_history :
        action_history[i].success /\ action_history[i].action_id[1] = "display"}

\* C36: when two or more brightness actions have been applied with success
\* and none has been reverted, a revert_all_actions() whose reverts all
\* succeed leaves the brightness at the value it had before the first of
\* the applies.
C36_RevertAllRestoresFirstBrightness ==
    (/\ ev.op = "revert_all_actions"
     /\ \A i \in DOMAIN ev.results : ev.results[i].success
     /\ Cardinality({action_history[i].action_id : i \in DisplaySuccesses}) >= 2
     /\ {action_history[i].action_id : i \in DisplaySuccesses}
            \subseteq {ev.results[i].action_id : i \in DOMAIN ev.results})
    => \A i \in DisplaySuccesses :
           (\A j \in DisplaySuccesses : i <= j)
               => optimizers.display.current_brightness = action_history[i].previous_value

\* C37: after any sequence of applies and reverts, failed reverts included,
\* every id of the active-action map still has its saved previous state in
\* the backend its action kind routes to, so that a revert that failed can
\* be made again.
C37_ActiveIdsKeepTheirSavedState ==
    \A i \in DOMAIN active_actions :
        active_actions[i].id \in
            DOMAIN optimizers[OptimizerMap(active_actions[i].action.action_type)].previous_states

\* The error messages with which a backend turns down an action kind
UnknownActionErrors ==
    {"Unknown display action", "Unknown CPU action", "Unknown network action",
     "Unknown application action"}

\* C38: every action kind of the routing table is accepted by the backend
\* it is routed to: with the backend enabled, apply_actions never answers
\* 'unknown action' for a routed kind.
C38_RoutedKindsAreAccepted ==
    ev.op = "apply_actions" =>
        \A i \in DOMAIN ev.results :
            (/\ OptimizerMap(ev.actions[i].action_type) # "none"
             /\ optimizers[OptimizerMap(ev.actions[i].action_type)].enabled)
            => ev.results[i].error_message \notin UnknownActionErrors

\* C39: with every backend simulated and one caller, after any sequence of
\* apply_actions with any mix of kinds, revert_all_actions() returns
\* successful results only and leaves the active-action map empty.
C39_RevertAllSucceedsWhenSimulated ==
    ev.op = "revert_all_actions" =>
        /\ \A i \in DOMAIN ev.results : ev.results[i].success
        /\ active_actions = <<>>

\* C31: when a retraining that provide_feedback triggered fails at some
\* step, the scaler and the classifier that later decisions use are the ones
\* in place before the attempt, and provide_feedback returns without raising.
C31_FailedRetrainingKeepsTheModel ==
    (ev.op = "provide_feedback" /\ ev.failed) =>
        /\ agent.scaler = ev.scaler
        /\ agent.decision_model = ev.decision_model
        /\ ~ev.raised

\* C32: a classifier-tier inference never uses a scaler and a classifier of
\* different training generations, whatever a concurrent retraining does.
C32_InferenceUsesOneGeneration ==
    ev.op = "ml_decision" => ev.scaler = ev.decision_model

====
